---------------------------- MODULE Spec2Model ----------------------------
(***************************************************************************)
(* HumanMark detection service: the content classifier, the per-modality   *)
(* format sniffers, the container parsers, the signal engines, the score   *)
(* aggregation and the Detect orchestrator                                 *)
(* (internal/service/*.go).                                                *)
(*                                                                         *)
(* Conventions                                                             *)
(*   - A Go string or []byte is a sequence of bytes 0..255.  String        *)
(*     literals of the source are written S("...").                        *)
(*   - A payload ("blob") is [head |-> bytes, pad |-> n]: the bytes of     *)
(*     head followed by n bytes 0x00, the shape of the repository's test   *)
(*     fixtures (append(header, make([]byte, n)...)).                      *)
(*   - A float64 is a fixed-point integer in units of 1/Unit.              *)
(*   - Go's int is 64 bits wide on the supported builds, so no offset      *)
(*     computed from a 32-bit size field overflows.                        *)
(*   - Every index or slice expression the code executes is recorded as an *)
(*     access <<lo, hi>> (data[i] is <<i, i+1>>); an access outside the    *)
(*     buffer is a run-time panic in Go.                                   *)
(***************************************************************************)
EXTENDS Integers, Sequences, FiniteSets, TLC

VARIABLES
    call, ret, prev,          \* a call of the program and its results
    limiter, now, reqs,       \* the rate limiter, the clock and the HTTP requests
    repo, heap, rets,         \* a repository, the slices' arrays, the calls returned
    handler, frames, trace    \* a chain of middleware serving a request

serviceVars == <<call, ret, prev>>

limiterVars == <<limiter, now, reqs>>

repoVars == <<repo, heap, rets>>

chainVars == <<handler, frames, trace>>

vars == <<serviceVars, limiterVars, repoVars, chainVars>>

---------------------------------------------------------------------------
(* Bytes and strings *)

\* The printable ASCII characters 32..95 and 97..126 (96, the backquote, cannot
\* be written in a string literal and occurs in no literal of the source).
Ascii ==
    " !\"#$%&'()*+,-./0123456789:;<=>?@ABCDEFGHIJKLMNOPQRSTUVWXYZ[\\]^_abcdefghijklmnopqrstuvwxyz{|}~"

\* The byte of each one-character string.
Bytes ==
    [c \in {SubSeq(Ascii, i, i) : i \in 1..94} |->
        (CHOOSE i \in 32..126 : i # 96 /\ SubSeq(Ascii, i - 31 - i \div 97, i - 31 - i \div 97) = c)]

Ord(c) ==
    Bytes[c]

\* []byte("...")
S(str) ==
    [i \in 1..Len(str) |-> Ord(SubSeq(str, i, i))]

Min(a, b) ==
    IF a < b THEN a ELSE b

Max(a, b) ==
    IF a > b THEN a ELSE b

Zeros(n) ==
    [i \in 1..n |-> 0]

\* f[lo] + ... + f[hi], by halves (the recursion is logarithmic in the length).
RECURSIVE SumRange(_, _, _)
SumRange(f, lo, hi) ==
    IF lo > hi THEN 0
    ELSE IF lo = hi THEN f[lo]
    ELSE LET mid == (lo + hi) \div 2
         IN  SumRange(f, lo, mid) + SumRange(f, mid + 1, hi)

SumSeq(s) ==
    SumRange(s, 1, Len(s))

\* The least element of a set of integers, -1 for the empty set.
FirstOf(set) ==
    IF set = {} THEN -1 ELSE CHOOSE i \in set : \A j \in set : i <= j

---------------------------------------------------------------------------
(* float64 as fixed point: x stands for x / Unit; products and quotients   *)
(* are truncated to 1/Unit.                                                *)

Unit == 10^4

\* The decimal literal n/1000 (0.225 is Milli(225)).
Milli(n) ==
    n * (Unit \div 1000)

\* floor(x * y / Unit), computed without forming x * y.
Mul(x, y) ==
    (x \div Unit) * y + ((x % Unit) * y) \div Unit

\* floor(x * Unit / y) for y > 0, computed without forming x * Unit.
Div(x, y) ==
    (x \div y) * Unit + ((x % y) * Unit) \div y

\* float64(a) / float64(b) of two integers
Ratio(a, b) ==
    Div(a, b)

\* A signal left as computed, without the clamp.
Clamp01_Unclamped(x) ==
    x

\* math.Max(0, math.Min(1, x))
Clamp01(x) ==
    Max(0, Min(Unit, x))

\* The integer square root, by bisection on [lo, hi].
RECURSIVE ISqrtIn(_, _, _)
ISqrtIn(n, lo, hi) ==
    IF lo >= hi THEN lo
    ELSE LET mid == (lo + hi + 1) \div 2
         IN  IF mid * mid <= n THEN ISqrtIn(n, mid, hi) ELSE ISqrtIn(n, lo, mid - 1)

ISqrt(n) ==
    ISqrtIn(n, 0, Min(n, 46340))

\* math.Sqrt: sqrt(x / Unit) * Unit = sqrt(x * Unit), = 100 * sqrt(x) where
\* x * Unit would not fit.
Sqrt(x) ==
    IF x < 2 * 10^5 THEN ISqrt(x * Unit) ELSE ISqrt(Unit) * ISqrt(x)

\* float64(n) of an integer
Fix(n) ==
    n * Unit

\* floor(log2 n) for an integer n >= 1
RECURSIVE ILog2(_)
ILog2(n) ==
    IF n < 2 THEN 0 ELSE 1 + ILog2(n \div 2)

\* The fractional bits of log2 of a mantissa m / 2^14 in [1, 2), by repeated
\* squaring: bits still to produce, value accumulated so far.
RECURSIVE Log2Frac(_, _, _)
Log2Frac(m, bits, acc) ==
    IF bits = 0 THEN acc
    ELSE LET sq == (m * m) \div 2^14
         IN  IF sq >= 2^15 THEN Log2Frac(sq \div 2, bits - 1, 2 * acc + 1)
             ELSE Log2Frac(sq, bits - 1, 2 * acc)

\* log2 of an integer n >= 1 whose floor is e
Log2Of(n, e) ==
    e * Unit + (Log2Frac((n * 2^14) \div 2^e, 14, 0) * Unit) \div 2^14

\* math.Log2 of the rational num/den (num, den >= 1, below 2^16)
Log2Ratio(num, den) ==
    Log2Of(num, ILog2(num)) - Log2Of(den, ILog2(den))

\* s[lo:hi] of a Go string or byte slice (0-based, hi exclusive).
Sub(s, lo, hi) ==
    SubSeq(s, lo + 1, hi)

\* A byte of s lower-cased (bytes.ToLower / strings.ToLower on ASCII input).
LowerByte(b) ==
    IF b >= 65 /\ b <= 90 THEN b + 32 ELSE b

ToLower(s) ==
    [i \in 1..Len(s) |-> LowerByte(s[i])]

\* pat occurs in s at 0-based offset i.
MatchAt(s, i, pat) ==
    /\ i >= 0
    /\ i + Len(pat) <= Len(s)
    /\ \A k \in 1..Len(pat) : s[i + k] = pat[k]

\* strings.Index: the first offset of pat in s, or -1.
Index(s, pat) ==
    LET hits == {i \in 0..(Len(s) - Len(pat)) : MatchAt(s, i, pat)}
    IN  IF hits = {} THEN -1 ELSE CHOOSE i \in hits : \A j \in hits : i <= j

\* strings.Contains / bytes.Contains
Contains(s, pat) ==
    \E i \in 0..(Len(s) - Len(pat)) : MatchAt(s, i, pat)

ContainsAny(s, pats) ==
    \E p \in pats : Contains(s, p)

---------------------------------------------------------------------------
(* Payloads *)

Blob(h, p) ==
    [head |-> h, pad |-> p]

EmptyBlob ==
    Blob(<<>>, 0)

\* len(data)
BLen(d) ==
    Len(d.head) + d.pad

\* data[i] for 0 <= i < len(data); -1 stands for the panic of an index out of range.
At(d, i) ==
    IF i < 0 \/ i >= BLen(d) THEN -1
    ELSE IF i < Len(d.head) THEN d.head[i + 1]
    ELSE 0

\* data[lo:hi], clipped to the buffer (the access itself is recorded separately).
Clipped(d, l, h) ==
    Blob(SubSeq(d.head, Min(l, Len(d.head)) + 1, Min(h, Len(d.head))),
         Max(h, Len(d.head)) - Max(l, Len(d.head)))

BSlice(d, lo, hi) ==
    Clipped(d, Max(0, Min(lo, BLen(d))), Max(Max(0, Min(lo, BLen(d))), Min(hi, BLen(d))))

\* The bytes of a blob, spelled out (string(data)).
Expand(d) ==
    d.head \o Zeros(d.pad)

\* bytes.Equal(data[i:i+len(pat)], pat) for a pattern without 0x00 bytes.
BMatchAt(d, i, pat) ==
    MatchAt(d.head, i, pat)

\* bytes.Contains(data, pat), pat beginning with a non-zero byte: no match can
\* start in the zero padding, so only the head is searched.
BContains(d, pat) ==
    Contains(d.head, pat)

\* An access <<lo, hi>> is inside a buffer of n bytes.
InRange(a, n) ==
    /\ 0 <= a[1]
    /\ a[1] <= a[2]
    /\ a[2] <= n

AllInRange(accs, n) ==
    \A a \in accs : InRange(a, n)

\* data[off] == pat[1] && data[off+1] == pat[2] && ... (-1, the value of a read
\* outside the buffer, equals no byte).
BytesAt(d, off, pat) ==
    \A k \in 1..Len(pat) : At(d, off + k - 1) = pat[k]

\* data[i] == 0xFF && (data[i+1] & mask) == mask for mask = 0xE0 (224) or 0xF0
\* (240): the high bits of a byte are all set exactly when the byte is >= mask.
SyncWord(d, i, mask) ==
    At(d, i) = 255 /\ At(d, i + 1) >= mask

(***************************************************************************)
(* A chain of magic-byte tests.  A term is one operand of a Go && chain    *)
(* (nested ifs and && chains are the same thing): the access it makes and  *)
(* the value of its comparison; a length guard is a term without access.   *)
(* A rule is the terms of one if statement in program order and the value  *)
(* it returns.  Go evaluates terms left to right and stops at the first    *)
(* false one; an access outside the buffer panics.                         *)
(***************************************************************************)
Term(lo, hi, test) ==
    [acc |-> <<lo, hi>>, ok |-> test]

\* len(data) >= n
LenAtLeast(d, n) ==
    Term(0, 0, BLen(d) >= n)

\* data[i] == v
ByteIs(d, i, v) ==
    Term(i, i + 1, At(d, i) = v)

\* data[i] == pat[1] && data[i+1] == pat[2] && ... as separate index reads
BytesAre(d, i, pat) ==
    [k \in 1..Len(pat) |-> ByteIs(d, i + k - 1, pat[k])]

\* bytes.Equal(data[i:i+len(pat)], pat)
SliceIs(d, i, pat) ==
    Term(i, i + Len(pat), BytesAt(d, i, pat))

\* string(data[i:i+4]) is one of the strings pats
SliceIn(d, i, pats) ==
    Term(i, i + 4, \E p \in pats : BytesAt(d, i, p))

\* data[i] == 0xFF && (data[i+1] & mask) == mask
SyncTerms(d, i, mask) ==
    <<ByteIs(d, i, 255), Term(i + 1, i + 2, At(d, i + 1) >= mask)>>

Rule(terms, out) ==
    [terms |-> terms, out |-> out]

Panic == "panic"

\* The terms of one rule on a buffer of n bytes: [hit, acc, panic].
RECURSIVE EvalTerms(_, _, _)
EvalTerms(n, terms, acc) ==
    IF terms = <<>> THEN [hit |-> TRUE, acc |-> acc, panic |-> FALSE]
    ELSE LET t == Head(terms)
             acc2 == acc \cup {t.acc}
         IN  IF ~InRange(t.acc, n) THEN [hit |-> FALSE, acc |-> acc2, panic |-> TRUE]
             ELSE IF ~t.ok THEN [hit |-> FALSE, acc |-> acc2, panic |-> FALSE]
             ELSE EvalTerms(n, Tail(terms), acc2)

\* The rules in program order: the value of the first rule that hits, dflt when
\* none does, Panic when an access leaves the buffer, and the accesses made.
RECURSIVE Sniff(_, _, _, _)
Sniff(n, rules, dflt, acc) ==
    IF rules = <<>> THEN [v |-> dflt, acc |-> acc]
    ELSE LET r == Head(rules)
             e == EvalTerms(n, r.terms, acc)
         IN  IF e.panic THEN [v |-> Panic, acc |-> e.acc]
             ELSE IF e.hit THEN [v |-> r.out, acc |-> e.acc]
             ELSE Sniff(n, Tail(rules), dflt, e.acc)

---------------------------------------------------------------------------
(* Content classification (detector.go) *)

ContentTypeText == "text"
ContentTypeImage == "image"
ContentTypeAudio == "audio"
ContentTypeVideo == "video"
ContentTypeUnknown == "unknown"

\* filepath.Ext: the suffix from the last dot of the last path element.
Ext(path) ==
    LET Last(stops) == 0 - FirstOf({0 - i : i \in stops})
        From(stops) ==
            IF stops = {} THEN <<>>
            ELSE IF path[Last(stops)] = Ord(".") THEN SubSeq(path, Last(stops), Len(path))
            ELSE <<>>
    IN  From({j \in 1..Len(path) : path[j] = Ord(".") \/ path[j] = Ord("/")})

TextExts == {S(".txt"), S(".md"), S(".html"), S(".htm"), S(".json"), S(".xml"), S(".csv")}
ImageExts == {S(".jpg"), S(".jpeg"), S(".png"), S(".gif"), S(".webp"), S(".bmp"), S(".svg")}
AudioExts == {S(".mp3"), S(".wav"), S(".flac"), S(".ogg"), S(".m4a"), S(".aac")}
VideoExts == {S(".mp4"), S(".mov"), S(".avi"), S(".webm"), S(".mkv"), S(".wmv")}

ContentTypeFromFilename(filename) ==
    LET Switch(ext) ==
            IF ext \in TextExts THEN ContentTypeText
            ELSE IF ext \in ImageExts THEN ContentTypeImage
            ELSE IF ext \in AudioExts THEN ContentTypeAudio
            ELSE IF ext \in VideoExts THEN ContentTypeVideo
            ELSE ContentTypeUnknown
    IN  Switch(ToLower(Ext(filename)))

ContentTypeFromURL(url) ==
    LET Path(idx) == IF idx # -1 THEN Sub(url, 0, idx) ELSE url
    IN  ContentTypeFromFilename(Path(Index(url, S("?"))))

JPEGMagic == <<255, 216, 255>>
PNGMagic == <<137, 80, 78, 71>>
GIFMagic == <<71, 73, 70, 56>>
RIFFMagic == <<82, 73, 70, 70>>
WEBPMagic == <<87, 69, 66, 80>>
WAVEMagic == <<87, 65, 86, 69>>
FtypMagic == <<102, 116, 121, 112>>
ID3Magic == <<73, 68, 51>>

MagicByteRules(d) ==
    << Rule(BytesAre(d, 0, JPEGMagic), ContentTypeImage),
       Rule(BytesAre(d, 0, PNGMagic), ContentTypeImage),
       Rule(BytesAre(d, 0, GIFMagic), ContentTypeImage),
       Rule(<<LenAtLeast(d, 12)>> \o BytesAre(d, 0, RIFFMagic) \o BytesAre(d, 8, WEBPMagic),
            ContentTypeImage),
       Rule(SyncTerms(d, 0, 224), ContentTypeAudio),
       Rule(BytesAre(d, 0, ID3Magic), ContentTypeAudio),
       Rule(<<LenAtLeast(d, 8)>> \o BytesAre(d, 4, FtypMagic), ContentTypeVideo),
       Rule(<<LenAtLeast(d, 12)>> \o BytesAre(d, 0, RIFFMagic) \o BytesAre(d, 8, WAVEMagic),
            ContentTypeAudio) >>

\* ContentTypeFromMagicBytes with its accesses:
\* [v |-> the content type (or Panic), acc |-> the accesses made]
\* The rules applied without the length check in front of them.
MagicBytes_Unguarded(d) ==
    Sniff(BLen(d), MagicByteRules(d), ContentTypeUnknown, {})

MagicBytes(d) ==
    IF BLen(d) < 4 THEN [v |-> ContentTypeUnknown, acc |-> {}]
    ELSE Sniff(BLen(d), MagicByteRules(d), ContentTypeUnknown, {})

ContentTypeFromMagicBytes(d) ==
    MagicBytes(d).v

\* detector.detectContentType: the category of an input that carries no hint.
detectContentType(in) ==
    IF in.Text # <<>> THEN ContentTypeText
    ELSE IF in.Filename # <<>> THEN ContentTypeFromFilename(in.Filename)
    ELSE IF in.URL # <<>> THEN ContentTypeFromURL(in.URL)
    ELSE IF BLen(in.Data) > 0 THEN ContentTypeFromMagicBytes(in.Data)
    ELSE ContentTypeUnknown

---------------------------------------------------------------------------
(* Format sniffers (image_analyzer.go, audio_analyzer.go, video_analyzer.go) *)

BMPMagic == <<66, 77>>
EBMLMagic == <<26, 69, 223, 163>>

ImageFormatRules(d) ==
    << Rule(BytesAre(d, 0, JPEGMagic), "jpeg"),
       Rule(BytesAre(d, 0, PNGMagic), "png"),
       Rule(BytesAre(d, 0, GIFMagic), "gif"),
       Rule(<<LenAtLeast(d, 12)>> \o BytesAre(d, 0, RIFFMagic) \o BytesAre(d, 8, WEBPMagic),
            "webp"),
       Rule(BytesAre(d, 0, BMPMagic), "bmp") >>

\* detectImageFormat with its accesses
ImageFormat(d) ==
    IF BLen(d) < 8 THEN [v |-> "unknown", acc |-> {}]
    ELSE Sniff(BLen(d), ImageFormatRules(d), "unknown", {})

detectImageFormat(d) ==
    ImageFormat(d).v

AudioFormatRules(d) ==
    << Rule(SyncTerms(d, 0, 224), "mp3"),
       Rule(BytesAre(d, 0, ID3Magic), "mp3"),
       Rule(<<SliceIs(d, 0, S("RIFF")), SliceIs(d, 8, S("WAVE"))>>, "wav"),
       Rule(<<SliceIs(d, 0, S("fLaC"))>>, "flac"),
       Rule(<<SliceIs(d, 0, S("OggS"))>>, "ogg"),
       Rule(<<LenAtLeast(d, 8), SliceIs(d, 4, S("ftyp")), LenAtLeast(d, 12),
              SliceIn(d, 8, {S("M4A "), S("mp42"), S("isom")})>>, "m4a"),
       Rule(<<LenAtLeast(d, 8), SliceIs(d, 4, S("ftyp"))>>, "m4a"),
       Rule(SyncTerms(d, 0, 240), "aac") >>

\* detectAudioFormat with its accesses
AudioFormat(d) ==
    IF BLen(d) < 12 THEN [v |-> "unknown", acc |-> {}]
    ELSE Sniff(BLen(d), AudioFormatRules(d), "unknown", {})

detectAudioFormat(d) ==
    AudioFormat(d).v

VideoFormatRules(d) ==
    << Rule(<<LenAtLeast(d, 8)>> \o BytesAre(d, 4, S("ftyp")), "mp4"),
       Rule(<<LenAtLeast(d, 12), SliceIs(d, 4, S("ftyp")),
              SliceIn(d, 8, {S("isom"), S("iso2"), S("mp41"), S("mp42"), S("avc1"), S("M4V ")})>>,
            "mp4"),
       Rule(<<LenAtLeast(d, 12), SliceIs(d, 4, S("ftyp")), SliceIn(d, 8, {S("qt  ")})>>, "mov"),
       Rule(<<LenAtLeast(d, 12), SliceIs(d, 4, S("ftyp"))>>, "mp4"),
       Rule(BytesAre(d, 0, EBMLMagic) \o
              <<Term(0, Min(100, BLen(d)), BContains(BSlice(d, 0, Min(100, BLen(d))), S("webm")))>>,
            "webm"),
       Rule(BytesAre(d, 0, EBMLMagic), "mkv"),
       Rule(<<LenAtLeast(d, 12), SliceIs(d, 0, S("RIFF")), SliceIs(d, 8, S("AVI "))>>, "avi"),
       Rule(<<LenAtLeast(d, 4)>> \o BytesAre(d, 0, S("FLV")), "flv"),
       Rule(<<ByteIs(d, 0, 71), Term(0, 0, BLen(d) > 376), ByteIs(d, 188, 71), ByteIs(d, 376, 71)>>,
            "ts") >>

\* detectVideoFormat with its accesses
VideoFormat(d) ==
    IF BLen(d) < 12 THEN [v |-> "unknown", acc |-> {}]
    ELSE Sniff(BLen(d), VideoFormatRules(d), "unknown", {})

detectVideoFormat(d) ==
    VideoFormat(d).v

---------------------------------------------------------------------------
(* Image analyzer (image_analyzer.go).  A parser returns [v |-> its result, *)
(* acc |-> the accesses it makes].                                          *)

\* binary.BigEndian.Uint32(data[i:i+4]) and Uint16(data[i:i+2]), as Go ints.
\* A size of 2^30 or more is beyond every buffer of the model and is only ever
\* compared with or added to offsets, so all such sizes are represented by 2^30.
BE32(d, i) ==
    IF At(d, i) >= 64 THEN 2^30
    ELSE ((At(d, i) * 256 + At(d, i + 1)) * 256 + At(d, i + 2)) * 256 + At(d, i + 3)

BE16(d, i) ==
    At(d, i) * 256 + At(d, i + 1)

\* The first i in [0, limit) with data[i] == 0xFF and data[i+1] one of seconds,
\* -1 when the loop ends without one.  0xFF is not a padding byte.
FindMarker(d, limit, seconds) ==
    FirstOf({i \in 0..(Min(limit, Len(d.head)) - 1) :
                 d.head[i + 1] = 255 /\ At(d, i + 1) \in seconds})

\* The accesses of that loop: data[i] and data[i+1] up to the marker found, or
\* up to the last index below limit.
FindMarkerAcc(limit, i) ==
    IF limit <= 0 THEN {}
    ELSE IF i # -1 THEN {<<0, i + 2>>}
    ELSE {<<0, limit + 1>>}

ImageMetadata(format) ==
    [FileFormat |-> format, HasEXIF |-> FALSE, CameraMake |-> "", Software |-> "",
     HasGPS |-> FALSE, IsScreenshot |-> FALSE]

CameraMakes == <<"Apple", "Canon", "Nikon", "Sony", "Samsung", "Google">>

\* The first entry of names that occurs in seg, "" when none does.
FirstNamed(seg, names) ==
    IF \E k \in 1..Len(names) : BContains(seg, S(names[k]))
    THEN names[FirstOf({k \in 1..Len(names) : BContains(seg, S(names[k]))})]
    ELSE ""

AIGeneratorNames == {S("DALL-E"), S("Midjourney"), S("Stable Diffusion")}

\* The software named in exifData
ExifSoftware(seg) ==
    IF BContains(seg, S("Photoshop")) THEN "Photoshop"
    ELSE IF BContains(seg, S("GIMP")) THEN "GIMP"
    ELSE IF BContains(seg, S("Lightroom")) THEN "Lightroom"
    ELSE IF \E g \in AIGeneratorNames : BContains(seg, g) THEN "AI Generator"
    ELSE ""

\* meta after the search for the APP1 segment; exif: the segment found begins
\* with "Exif".
ExifFields(seg, exif) ==
    [FileFormat |-> "jpeg", HasEXIF |-> exif,
     CameraMake |-> IF exif THEN FirstNamed(seg, CameraMakes) ELSE "",
     Software |-> IF exif THEN ExifSoftware(seg) ELSE "",
     HasGPS |-> exif /\ BContains(seg, S("GPS")),
     IsScreenshot |-> FALSE]

\* if meta.Software == "" && !meta.HasEXIF { meta.IsScreenshot = true }
ScreenshotCheck(meta) ==
    [meta EXCEPT !.IsScreenshot = meta.Software = "" /\ ~meta.HasEXIF]

\* if i+10 < len(data), for the marker found at i (-1: none found)
HasSegment(n, i) ==
    i # -1 /\ i + 10 < n

\* parseJPEGMetadata once the marker loop has ended at i; seg is data[i+4:].
JPEGSegment(n, i, seg) ==
    [v |-> ScreenshotCheck(ExifFields(seg, /\ HasSegment(n, i)
                                           /\ BLen(seg) >= 6
                                           /\ BytesAt(seg, 0, S("Exif")))),
     acc |-> FindMarkerAcc(n - 10, i) \cup
             (IF HasSegment(n, i) THEN {<<i + 4, n>>} ELSE {}) \cup
             (IF HasSegment(n, i) /\ BLen(seg) >= 6 THEN {<<i + 4, i + 8>>} ELSE {})]

JPEGMarker(d, n, i) ==
    JPEGSegment(n, i, BSlice(d, i + 4, n))

parseJPEGMetadata(d) ==
    IF BLen(d) < 12 THEN [v |-> ImageMetadata("jpeg"), acc |-> {}]
    ELSE JPEGMarker(d, BLen(d), FindMarker(d, BLen(d) - 10, {225}))

PNGGeneratorNames == AIGeneratorNames \cup {S("ComfyUI")}

\* The chunk data taken without the check against the end of the buffer.
HasChunkData_Unchecked(d, i, chunkLen) ==
    chunkLen > 0

\* chunkLen > 0 && i+8+int(chunkLen) < len(data)
HasChunkData(d, i, chunkLen) ==
    chunkLen > 0 /\ i + 8 + chunkLen < BLen(d)

\* One iteration of the chunk loop of parsePNGMetadata at offset i, for the
\* chunk length read there.
PNGChunkOf(d, i, chunkLen) ==
    [text |-> BytesAt(d, i + 4, S("tEXt")) \/ BytesAt(d, i + 4, S("iTXt")),
     ai |-> /\ HasChunkData(d, i, chunkLen)
            /\ \E g \in PNGGeneratorNames : BContains(BSlice(d, i + 8, i + 8 + chunkLen), g),
     next |-> i + 12 + chunkLen,
     acc |-> {<<i, i + 4>>, <<i + 4, i + 8>>} \cup
             (IF HasChunkData(d, i, chunkLen) THEN {<<i + 8, i + 8 + chunkLen>>} ELSE {})]

PNGChunk(d, i) ==
    PNGChunkOf(d, i, BE32(d, i))

\* The state of a container walk: the offsets of the iterations that ran to
\* their end (offs), the offset at which the loop stopped (end) and whether a
\* break stopped it (broke),
\* the iterations summarised inside the padding (pad of them, stride apart),
\* the offsets of the walks inside nested atoms (inner), what was found, the
\* accesses made, whether a nested walk left its atom (panic) and whether
\* an iteration left the offset where it was (stuck): the loop then repeats
\* that iteration for ever.
NoWalk ==
    [offs |-> <<>>, pad |-> 0, stride |-> 0, inner |-> <<>>, text |-> FALSE, ai |-> FALSE,
     enc |-> "", audio |-> FALSE, chunks |-> 0, acc |-> {}, panic |-> FALSE,
     stuck |-> FALSE, end |-> 0, broke |-> FALSE]

\* The walk w after the iteration at offset i that found chunk c.
PNGStep(i, w, c) ==
    [w EXCEPT !.offs = Append(@, i), !.text = @ \/ c.text,
              !.ai = @ \/ c.ai, !.acc = @ \cup c.acc,
              !.stuck = c.next <= i, !.end = c.next]

\* k iterations from offset i on inside the zero padding: a chunk there has
\* length 0 and no type, so the loop only moves on by 12 until it leaves the
\* buffer; the iterations are summarised by their count and their last access.
PNGPadding(i, w, k) ==
    [w EXCEPT !.pad = k, !.stride = 12, !.end = i + 12 * k,
              !.acc = @ \cup {<<i, i + 8>>, <<i + 12 * (k - 1), i + 12 * (k - 1) + 8>>}]

\* The chunk loop from offset i: for i < len(data)-8 { ... }
RECURSIVE PNGWalk(_, _, _)
PNGLoop(d, w) ==
    IF w.stuck THEN w ELSE PNGWalk(d, w.end, w)

PNGWalk(d, i, w) ==
    IF ~(i < BLen(d) - 8) THEN [w EXCEPT !.end = i]
    ELSE IF i + 8 > BLen(d) THEN [w EXCEPT !.end = i, !.broke = TRUE]
    ELSE IF i >= Len(d.head) THEN PNGPadding(i, w, (BLen(d) - 8 - i + 11) \div 12)
    ELSE PNGLoop(d, PNGStep(i, w, PNGChunk(d, i)))

PNGFields(w) ==
    [v |-> [ImageMetadata("png") EXCEPT !.HasEXIF = w.text,
               !.Software = IF w.ai THEN "AI Generator" ELSE ""],
     acc |-> w.acc]

parsePNGMetadata(d) ==
    PNGFields(PNGWalk(d, 8, NoWalk))

extractMetadata(d, format) ==
    IF format = "jpeg" THEN parseJPEGMetadata(d)
    ELSE IF format = "png" THEN parsePNGMetadata(d)
    ELSE [v |-> ImageMetadata(format), acc |-> {}]

ImageStats ==
    [Width |-> 0, Height |-> 0, BitDepth |-> 0, ColorChannels |-> 0]

\* getJPEGStats once the marker loop has ended at i (-1: no marker found)
JPEGFrame(d, n, i) ==
    IF i # -1 /\ i + 9 < n
    THEN [v |-> [Width |-> BE16(d, i + 7), Height |-> BE16(d, i + 5),
                 BitDepth |-> At(d, i + 4), ColorChannels |-> At(d, i + 9)],
          acc |-> FindMarkerAcc(n - 10, i) \cup
                  {<<i + 4, i + 5>>, <<i + 5, i + 7>>, <<i + 7, i + 9>>, <<i + 9, i + 10>>}]
    ELSE [v |-> ImageStats, acc |-> FindMarkerAcc(n - 10, i)]

getJPEGStats(d) ==
    JPEGFrame(d, BLen(d), FindMarker(d, BLen(d) - 10, {192, 194}))

\* getPNGStats reading the width and the height at the start of the chunk
getPNGStats_AtChunk(d) ==
    IF BLen(d) >= 24
    THEN [v |-> [Width |-> BE32(d, 12), Height |-> BE32(d, 16),
                 BitDepth |-> IF BLen(d) >= 25 THEN At(d, 24) ELSE 0, ColorChannels |-> 0],
          acc |-> {<<12, 16>>, <<16, 20>>} \cup (IF BLen(d) >= 25 THEN {<<24, 25>>} ELSE {})]
    ELSE [v |-> ImageStats, acc |-> {}]

getPNGStats(d) ==
    IF BLen(d) >= 24
    THEN [v |-> [Width |-> BE32(d, 16), Height |-> BE32(d, 20),
                 BitDepth |-> IF BLen(d) >= 25 THEN At(d, 24) ELSE 0, ColorChannels |-> 0],
          acc |-> {<<16, 20>>, <<20, 24>>} \cup (IF BLen(d) >= 25 THEN {<<24, 25>>} ELSE {})]
    ELSE [v |-> ImageStats, acc |-> {}]

getImageStats(d, format) ==
    IF format = "jpeg" THEN getJPEGStats(d)
    ELSE IF format = "png" THEN getPNGStats(d)
    ELSE [v |-> ImageStats, acc |-> {}]

\* imageAnalyzer.analyzeMetadata
analyzeImageMetadata(meta) ==
    Clamp01(Milli(500)
            + (IF meta.HasEXIF THEN -Milli(200) ELSE Milli(200))
            - (IF meta.CameraMake # "" THEN Milli(200) ELSE 0)
            - (IF meta.HasGPS THEN Milli(200) ELSE 0)
            + (IF meta.Software = "AI Generator" THEN Milli(400) ELSE 0)
            + (IF meta.IsScreenshot THEN Milli(100) ELSE 0))

\* The number of bytes equal to v in data[lo:hi].
CountByte(d, lo, hi, v) ==
    Cardinality({k \in lo..(Min(hi, Len(d.head)) - 1) : d.head[k + 1] = v})
      + (IF v = 0 THEN Max(0, hi - Max(lo, Len(d.head))) ELSE 0)

\* -p * log2(p) for p = f / total, 0 for a byte value that does not occur
EntropyTerm(f, total) ==
    IF f > 0 THEN -Mul(Ratio(f, total), Log2Ratio(f, total)) ELSE 0

\* The Shannon entropy in bits of the bytes of data[lo:hi]:
\* the sum over the byte values that occur of -p*log2(p), p = freq/total.
ByteEntropy(d, lo, hi) ==
    IF lo >= Len(d.head) THEN 0
    ELSE SumRange([v \in 0..255 |-> EntropyTerm(CountByte(d, lo, hi, v), hi - lo)], 0, 255)

\* The signal for a normalized entropy
EntropySignal(normalizedEntropy) ==
    IF normalizedEntropy < Milli(600) \/ normalizedEntropy > Milli(980)
    THEN Milli(700) ELSE Milli(400)

ColorSample(d, startOffset) ==
    IF BLen(d) < startOffset + 1000 THEN [v |-> Milli(500), acc |-> {}]
    ELSE [v |-> EntropySignal(ByteEntropy(d, startOffset, startOffset + 1000) \div 8),
          acc |-> {<<startOffset, startOffset + 1000>>}]

analyzeColorDistribution(d, format) ==
    IF BLen(d) < 1000 THEN [v |-> Milli(500), acc |-> {}]
    ELSE ColorSample(d, IF format = "png" THEN 50 ELSE 100)

\* byteSimilarity(data[i:i+size], data[j:j+size]): the fraction of positions
\* that hold equal bytes (two windows inside the padding are equal throughout).
byteSimilarity(d, i, j, size) ==
    IF i >= Len(d.head) /\ j >= Len(d.head) THEN Unit
    ELSE Ratio(Cardinality({k \in 0..(size - 1) : At(d, i + k) = At(d, j + k)}), size)

\* The start offsets of the samples analyzeEdgeConsistency takes, step apart.
EdgeSamples(n, step) ==
    [k \in 1..Cardinality({j \in 0..9 : 1000 + j * step < n - 256}) |-> 1000 + (k - 1) * step]

\* The pairs of samples more than 90% similar
similarityCount(d, samples) ==
    Cardinality({p \in (1..Len(samples)) \X (1..Len(samples)) :
                   /\ p[1] < p[2]
                   /\ byteSimilarity(d, samples[p[1]], samples[p[2]], 256) > Milli(900)})

\* The signal for m samples of which count pairs are similar
EdgeSignal(m, count) ==
    IF m < 3 THEN Milli(500)
    ELSE IF Ratio(count, (m * (m - 1)) \div 2) > Milli(300) THEN Milli(700)
    ELSE Milli(400)

EdgeSampled(d, samples) ==
    [v |-> EdgeSignal(Len(samples), similarityCount(d, samples)),
     acc |-> {<<samples[k], samples[k] + 256>> : k \in 1..Len(samples)}]

analyzeEdgeConsistency(d, format) ==
    IF BLen(d) < 5000 THEN [v |-> Milli(500), acc |-> {}]
    ELSE EdgeSampled(d, EdgeSamples(BLen(d), BLen(d) \div 12))

\* The windows of 16 bytes of sample = data[500:1500] that analyzeNoisePattern
\* visits: i = 0, 16, ... while i < len(sample) - 16.
NoiseWindows ==
    {i \in 0..(1000 - 16 - 1) : i % 16 = 0}

\* 256 times the variance of 16 bytes b: 16 * (sum of squares) - (sum)^2.
Variance256(b) ==
    16 * SumSeq([j \in 1..16 |-> b[j] * b[j]]) - SumSeq(b) ^ 2

WindowVariance256(d, lo) ==
    Variance256([j \in 1..16 |-> At(d, lo + j - 1)])

\* The signal for the window variances ws (times 256) of average avgVariance.
\* The variance of the variances and the coefficient noiseCV are computed on
\* the variances truncated to integers.
NoiseSignal(ws, avgVariance) ==
    IF SumSeq(ws) < 10 * 256 * Len(ws) THEN Milli(700)
    ELSE IF ISqrt(SumSeq([k \in 1..Len(ws) |->
                            (((ws[k] \div 256) - avgVariance) ^ 2) \div Len(ws)]))
              > 2 * (avgVariance + 1)
    THEN Milli(600)
    ELSE Milli(400)

NoiseSampled(ws) ==
    NoiseSignal(ws, (SumSeq(ws) \div 256) \div Len(ws))

analyzeNoisePattern(d, format) ==
    IF BLen(d) < 2000 THEN [v |-> Milli(500), acc |-> {}]
    ELSE [v |-> NoiseSampled([k \in 1..Cardinality(NoiseWindows) |->
                                WindowVariance256(d, 500 + 16 * (k - 1))]),
          acc |-> {<<500, 1500>>}]

\* The signal for the sum of the quantization table
QuantizationSignal(sum) ==
    IF sum < 200 THEN Milli(700)
    ELSE IF sum > 3000 THEN Milli(600)
    ELSE Milli(400)

\* analyzeCompression once the marker loop has ended at i (-1: no DQT marker)
JPEGQuantization(d, n, i) ==
    IF i # -1 /\ i + 69 < n
    THEN [v |-> QuantizationSignal(SumSeq([j \in 1..64 |-> At(d, i + 4 + j)])),
          acc |-> FindMarkerAcc(n - 100, i) \cup {<<i + 5, i + 69>>}]
    ELSE [v |-> Milli(500), acc |-> FindMarkerAcc(n - 100, i)]

analyzeCompression(d, format) ==
    IF format # "jpeg" THEN [v |-> Milli(500), acc |-> {}]
    ELSE JPEGQuantization(d, BLen(d), FindMarker(d, BLen(d) - 100, {219}))

\* analyzeSymmetry for the halves meeting at mid, sampleSize bytes compared
Halves(d, mid, sampleSize) ==
    IF mid + sampleSize > BLen(d) THEN [v |-> Milli(500), acc |-> {}]
    ELSE [v |-> IF byteSimilarity(d, 100, mid, sampleSize) > Milli(700)
                THEN Milli(700) ELSE Milli(400),
          acc |-> {<<100, 100 + sampleSize>>, <<mid, mid + sampleSize>>}]

analyzeSymmetry(d, format) ==
    IF BLen(d) < 2000 THEN [v |-> Milli(500), acc |-> {}]
    ELSE Halves(d, BLen(d) \div 2, 500)

\* sum(signal * weight) / sum(weight) when the weights do not sum to 0,
\* clamped to [0, 1]
WeightedMean(score, totalWeight) ==
    Clamp01(IF totalWeight > 0 THEN score \div totalWeight ELSE score \div Unit)

\* The signals averaged without their weights
calculateWeightedScore_Unweighted(signals, weights) ==
    Clamp01(SumSeq(signals) \div Len(signals))

calculateWeightedScore(signals, weights) ==
    WeightedMean(SumSeq([k \in 1..Len(signals) |-> signals[k] * weights[k]]), SumSeq(weights))

\* DefaultImageWeights: MetadataScore, ColorDistribution, EdgeConsistency,
\* NoisePattern, CompressionAnalysis, SymmetryDetection.
DefaultImageWeights ==
    <<Milli(250), Milli(200), Milli(150), Milli(150), Milli(150), Milli(100)>>

\* The result of an analysis, the accesses it made and whether one of them
\* (or one of a nested walk) panics.
Analysis(d, format, metadata, signals, weights, walk, acc) ==
    [Format |-> format, Metadata |-> metadata, Signals |-> signals,
     AIScore |-> calculateWeightedScore(signals, weights), Walk |-> walk,
     acc |-> acc, panic |-> walk.panic \/ ~AllInRange(acc, BLen(d))]

ImageAnalysisResult(d, format, metadata, stats, signals, walk, acc) ==
    [Format |-> format, Metadata |-> metadata, Stats |-> stats, Signals |-> signals,
     AIScore |-> calculateWeightedScore(signals, DefaultImageWeights), Walk |-> walk,
     acc |-> acc, panic |-> ~AllInRange(acc, BLen(d))]

\* The values and the accesses of a sequence of steps [v, acc]
Values(steps) ==
    [k \in 1..Len(steps) |-> steps[k].v]

Accesses(steps) ==
    UNION {steps[k].acc : k \in 1..Len(steps)}

\* Analyze from the metadata, the stats and the data signals computed
ImageSignals(d, format, meta, stats, steps, acc) ==
    ImageAnalysisResult(d, format, meta.v, stats.v,
                        <<analyzeImageMetadata(meta.v)>> \o Values(steps),
                        IF format = "png" THEN PNGWalk(d, 8, NoWalk) ELSE NoWalk,
                        UNION {acc, meta.acc, stats.acc, Accesses(steps)})

ImageOfFormat(d, format, acc) ==
    ImageSignals(d, format, extractMetadata(d, format), getImageStats(d, format),
                 <<analyzeColorDistribution(d, format), analyzeEdgeConsistency(d, format),
                   analyzeNoisePattern(d, format), analyzeCompression(d, format),
                   analyzeSymmetry(d, format)>>, acc)

ImageSniffed(d, fmt) ==
    ImageOfFormat(d, fmt.v, fmt.acc)

\* ImageAnalyzer.Analyze
AnalyzeImage(d) ==
    ImageSniffed(d, ImageFormat(d))

---------------------------------------------------------------------------
(* Text analyzer (text_analyzer.go).  Texts are ASCII.                     *)

\* The elements of a finite set of integers in increasing order.
Sorted(set) ==
    [k \in 1..Cardinality(set) |-> CHOOSE x \in set : Cardinality({y \in set : y < x}) = k - 1]

\* The last index of the run of bytes of class that starts at index i (1-based).
RunEnd(t, i, class) ==
    CHOOSE j \in i..Len(t) : /\ \A k \in i..j : t[k] \in class
                             /\ (j = Len(t) \/ t[j + 1] \notin class)

\* [a-zA-Z']
WordBytes == (65..90) \cup (97..122) \cup {39}

\* \s of a Go regular expression: [\t\n\f\r ]
RegexpSpace == {9, 10, 12, 13, 32}

\* unicode.IsSpace on ASCII, the bytes strings.TrimSpace removes
Space == {9, 10, 11, 12, 13, 32}

\* [.!?]
SentenceEnd == {46, 33, 63}

\* unicode.IsPunct on ASCII: ! " # % & ' ( ) * , - . / : ; ? @ [ \ ] _ { }
Punct ==
    {33, 34, 35, 37, 38, 39, 40, 41, 42, 44, 45, 46, 47, 58, 59, 63, 64, 91, 92, 93, 95, 123, 125}

\* The greatest element of a non-empty set of integers
LastOf(set) ==
    CHOOSE i \in set : \A j \in set : j <= i

\* The maximal runs of bytes of class in t, as <<first, last>> index pairs, in order.
Runs(t, class) ==
    LET From(first) == [k \in 1..Len(first) |-> <<first[k], RunEnd(t, first[k], class)>>]
    IN  From(Sorted({i \in 1..Len(t) : t[i] \in class /\ (i = 1 \/ t[i - 1] \notin class)}))

\* tokenize: regexp [a-zA-Z']+, FindAllString
tokenize(t) ==
    LET Matches(runs) == [k \in 1..Len(runs) |-> SubSeq(t, runs[k][1], runs[k][2])]
    IN  Matches(Runs(t, WordBytes))

\* strings.TrimSpace
TrimSpace(t) ==
    LET Between(keep) == IF keep = {} THEN <<>> ELSE SubSeq(t, FirstOf(keep), LastOf(keep))
    IN  Between({i \in 1..Len(t) : t[i] \notin Space})

\* The runs marks of sentence-ending marks that white space follows, each with
\* all the white space that follows it.
Followed(t, marks) ==
    LET Matches(nth) ==
            [k \in 1..Len(nth) |->
               <<marks[nth[k]][1], RunEnd(t, marks[nth[k]][2] + 1, RegexpSpace)>>]
    IN  Matches(Sorted({k \in 1..Len(marks) :
                          marks[k][2] < Len(t) /\ t[marks[k][2] + 1] \in RegexpSpace}))

\* The matches of [.!?]+\s+ in t
Separators(t) ==
    Followed(t, Runs(t, SentenceEnd))

\* regexp.Split at the matches seps, each part trimmed
Parts(t, seps) ==
    [k \in 1..(Len(seps) + 1) |->
       TrimSpace(SubSeq(t, IF k = 1 THEN 1 ELSE seps[k - 1][2] + 1,
                           IF k = Len(seps) + 1 THEN Len(t) ELSE seps[k][1] - 1))]

\* The parts that are not empty, in order
NonEmpty(parts) ==
    LET Pick(kept) == [k \in 1..Len(kept) |-> parts[kept[k]]]
    IN  Pick(Sorted({k \in 1..Len(parts) : parts[k] # <<>>}))

\* splitSentences: regexp.Split, then TrimSpace and drop of the empty parts
splitSentences(t) ==
    NonEmpty(Parts(t, Separators(t)))

\* The distinct lower-cased words
UniqueWords(words) ==
    {ToLower(words[k]) : k \in 1..Len(words)}

\* The statistics with one word too many
TextStats_ExtraWord(t, words, sentences) ==
    [CharCount |-> Len(t), WordCount |-> Len(words) + 1,
     SentenceCount |-> Len(sentences),
     UniqueWords |-> Cardinality(UniqueWords(words)) + 1,
     PunctuationCount |-> Cardinality({i \in 1..Len(t) : t[i] \in Punct})]

TextStats(t, words, sentences) ==
    [CharCount |-> Len(t), WordCount |-> Len(words),
     SentenceCount |-> Len(sentences),
     UniqueWords |-> Cardinality(UniqueWords(words)),
     PunctuationCount |-> Cardinality({i \in 1..Len(t) : t[i] \in Punct})]

calculateStats(t) ==
    TextStats(t, tokenize(t), splitSentences(t))

\* The mean and the variance of a sequence of fixed-point numbers, and the
\* coefficient of variation stdDev / mean (0 when the mean is not positive).
Mean(xs) ==
    SumSeq(xs) \div Len(xs)

Square(x) ==
    Mul(x, x)

VarianceAbout(xs, mean) ==
    SumSeq([k \in 1..Len(xs) |-> Square(xs[k] - mean)]) \div Len(xs)

StdDevOverMean(xs, mean) ==
    IF mean > 0 THEN Div(Sqrt(VarianceAbout(xs, mean)), mean) ELSE 0

CoefficientOfVariation(xs) ==
    StdDevOverMean(xs, Mean(xs))

\* The signal for the sentences of the text
SentenceVariance(sentences) ==
    IF Len(sentences) < 3 THEN Milli(500)
    ELSE Unit - Min(Div(CoefficientOfVariation([k \in 1..Len(sentences) |->
                                                  Fix(Len(tokenize(sentences[k])))]),
                        Milli(800)), Unit)

analyzeSentenceVariance(t) ==
    SentenceVariance(splitSentences(t))

\* The keys of the commonWords map of isCommonWord.
CommonWordList ==
    <<
      "a", "an", "the", "i", "you", "he", "she", "it", "we", "they", "me",
      "him", "her", "us", "them", "my", "your", "his", "its", "our", "their",
      "this", "that", "in", "on", "at", "to", "for", "of", "with", "by",
      "from", "about", "into", "through", "during", "before", "after", "and",
      "or", "but", "so", "yet", "if", "when", "while", "because", "although",
      "is", "are", "was", "were", "be", "been", "being", "have", "has",
      "had", "do", "does", "did", "will", "would", "could", "should", "may",
      "might", "must", "can", "get", "got", "make", "made", "not", "no",
      "yes", "just", "only", "also", "very", "more", "most", "some", "any",
      "all", "many", "much", "other", "such", "than", "then", "now", "here",
      "there", "where", "what", "which", "who", "how", "why", "each",
      "every", "both", "few", "new", "old", "good", "bad", "first", "last",
      "long", "little", "own", "same", "big", "high", "small", "large",
      "next", "early", "young", "important", "public", "able", "man",
      "woman", "time", "year", "people", "way", "day", "thing", "world",
      "life", "hand", "part", "place", "case", "week", "work", "fact",
      "group", "number", "night", "point", "home", "water", "room", "mother",
      "area", "money", "story", "month", "lot", "right", "study", "book",
      "eye", "job", "word", "business", "issue", "side", "kind", "head",
      "house", "service", "friend", "father", "power", "hour", "game",
      "line", "end", "member", "law", "car", "city", "community", "name" >>

CommonWords ==
    {S(CommonWordList[k]) : k \in 1..Len(CommonWordList)}

isCommonWord(word) ==
    ToLower(word) \in CommonWords

\* The signal for the words and the distinct lower-cased words of the text
Richness(words, unique) ==
    IF Len(words) < 10 THEN Milli(500)
    ELSE Clamp01(Mul(Unit - Min(Div(Ratio(Cardinality(unique), Len(words)), Milli(600)), Unit),
                     Milli(600))
                 + Mul(Unit - Ratio(Cardinality({w \in unique : ~isCommonWord(w) /\ Len(w) > 3}),
                                    Cardinality(unique)),
                       Milli(400)))

VocabularyRichness(words) ==
    Richness(words, UniqueWords(words))

analyzeVocabularyRichness(t) ==
    VocabularyRichness(tokenize(t))

\* sqrt(variance) / mean of the gaps between the positions (increasing) of one
\* repeated word; 0 when the mean gap is not positive.
GapBurstiness(positions) ==
    CoefficientOfVariation([k \in 1..(Len(positions) - 1) |->
                              Fix(positions[k + 1] - positions[k])])

\* The lower-cased words
LowerWords(words) ==
    [k \in 1..Len(words) |-> ToLower(words[k])]

\* wordPositions[w] for the lower-cased words lower
Positions(lower, w) ==
    Sorted({k \in 1..Len(lower) : lower[k] = w})

\* The keys of wordPositions: words longer than 4 that are not common
ContentWords(lower) ==
    {lower[k] : k \in {j \in 1..Len(lower) : Len(lower[j]) > 4 /\ ~isCommonWord(lower[j])}}

\* The first positions of the content words that occur at least twice
Repeated(lower, content) ==
    Sorted({k \in 1..Len(lower) :
              /\ lower[k] \in content
              /\ Len(Positions(lower, lower[k])) >= 2
              /\ Positions(lower, lower[k])[1] = k})

Burstiness(lower, repeated) ==
    IF Len(repeated) = 0 THEN Milli(500)
    ELSE Unit - Min(Div(SumSeq([j \in 1..Len(repeated) |->
                                  GapBurstiness(Positions(lower, lower[repeated[j]]))])
                          \div Len(repeated),
                        Milli(1500)), Unit)

WordBurstiness(lower) ==
    IF Len(lower) < 20 THEN Milli(500)
    ELSE Burstiness(lower, Repeated(lower, ContentWords(lower)))

analyzeBurstiness(t) ==
    WordBurstiness(LowerWords(tokenize(t)))

\* '!', '?', ';', ':', '-', '(', ')', '"', '\'' (the tenth rune of the list,
\* the em dash, is not ASCII)
InterestingPunct == {33, 63, 59, 58, 45, 40, 41, 34, 39}

\* The signal for the keys of punctCounts
PunctuationVariety(punctCounts) ==
    Clamp01(Unit - (Mul(Ratio(Cardinality(punctCounts), 8), Milli(500))
                    + Mul(Ratio(Cardinality(punctCounts \cap InterestingPunct), 5), Milli(500))))

analyzePunctuationVariety(t) ==
    IF Cardinality({i \in 1..Len(t) : t[i] \in Punct}) < 5 THEN Milli(500)
    ELSE PunctuationVariety({t[i] : i \in {j \in 1..Len(t) : t[j] \in Punct}})

\* aiPhrases: pattern and weight in thousandths.
AIPhrases ==
    <<
      <<"as an ai", 1000>>, <<"as a language model", 1000>>,
      <<"i don't have personal", 900>>, <<"i cannot provide", 800>>,
      <<"i'm unable to", 700>>, <<"it's important to note", 800>>,
      <<"it is important to", 700>>, <<"it's worth noting", 700>>,
      <<"it should be noted", 700>>, <<"keep in mind that", 600>>,
      <<"furthermore", 400>>, <<"moreover", 400>>, <<"additionally", 400>>,
      <<"in conclusion", 500>>, <<"to summarize", 500>>,
      <<"in summary", 500>>, <<"overall", 300>>,
      <<"i hope this helps", 700>>, <<"feel free to", 500>>,
      <<"don't hesitate to", 500>>, <<"let me know if", 400>>,
      <<"utilize", 300>>, <<"facilitate", 300>>, <<"leverage", 300>>,
      <<"delve into", 600>>, <<"dive into", 400>>, <<"explore the", 300>>,
      <<"here are some", 500>>, <<"here's a list", 500>>,
      <<"the following", 400>> >>

\* The phrases that occur in the lower-cased text
MatchedPhrases(lowerText) ==
    {k \in 1..Len(AIPhrases) : Contains(lowerText, S(AIPhrases[k][1]))}

PhraseScore(matched, wordCount) ==
    IF matched = {} THEN 0
    ELSE Min(Div(SumSeq([k \in 1..Len(AIPhrases) |->
                           IF k \in matched THEN Milli(AIPhrases[k][2]) ELSE 0]),
                 Ratio(wordCount, 100)), Unit)

detectAIPhrases(t) ==
    PhraseScore(MatchedPhrases(ToLower(t)), Len(tokenize(t)))

WordLengthVariance(words) ==
    IF Len(words) < 10 THEN Milli(500)
    ELSE Unit - Min(Div(CoefficientOfVariation([k \in 1..Len(words) |-> Fix(Len(words[k]))]),
                        Milli(600)), Unit)

analyzeWordLengthVariance(t) ==
    WordLengthVariance(tokenize(t))

Contractions ==
    <<
      "i'm", "i'll", "i've", "i'd", "you're", "you'll", "you've", "you'd",
      "he's", "she's", "it's", "we're", "they're", "don't", "doesn't",
      "didn't", "won't", "wouldn't", "can't", "couldn't", "shouldn't",
      "isn't", "aren't", "wasn't", "weren't", "haven't", "hasn't", "hadn't",
      "let's", "that's", "there's", "here's", "what's", "who's", "how's",
      "where's", "when's" >>

\* strings.Count(s, pat) for a pattern that cannot overlap itself
Count(s, pat) ==
    Cardinality({i \in 0..(Len(s) - Len(pat)) : MatchAt(s, i, pat)})

\* The contractions counted in the lower-cased text
ContractionCount(lowerText) ==
    SumSeq([k \in 1..Len(Contractions) |-> Count(lowerText, S(Contractions[k]))])

ContractionsUsage(wordCount, contractionCount) ==
    IF wordCount < 20 THEN Milli(500)
    ELSE Unit - Min(Div(Div(Fix(contractionCount), Ratio(wordCount, 100)), Fix(3)), Unit)

analyzeContractions(t) ==
    ContractionsUsage(Len(tokenize(t)), ContractionCount(ToLower(t)))

\* The first two words of a sentence, lower-cased; <<>> for a shorter sentence
SentenceStart(words) ==
    IF Len(words) >= 2 THEN ToLower(words[1] \o S(" ") \o words[2]) ELSE <<>>

\* The signal for the starts of n sentences: each start counts once less than
\* it occurs.
Repetition(n, start) ==
    Min(2 * Ratio(Cardinality({k \in 1..n : start[k] # <<>>})
                    - Cardinality({start[k] : k \in 1..n} \ {<<>>}), n), Unit)

SentenceRepetition(sentences) ==
    IF Len(sentences) < 3 THEN Milli(500)
    ELSE Repetition(Len(sentences),
                    [k \in 1..Len(sentences) |-> SentenceStart(tokenize(sentences[k]))])

analyzeRepetition(t) ==
    SentenceRepetition(splitSentences(t))

\* A table without the weight of AIPhraseDetection
DefaultWeights_NoPhrases ==
    <<Milli(150), Milli(200), Milli(100), Milli(100), 0, Milli(50), Milli(100), Milli(100)>>

\* DefaultWeights: SentenceVariance, VocabularyRichness, Burstiness,
\* PunctuationVariety, AIPhraseDetection, WordLengthVariance,
\* ContractionsUsage, RepetitionPenalty.
DefaultWeights ==
    <<Milli(150), Milli(200), Milli(100), Milli(100), Milli(200), Milli(50), Milli(100),
      Milli(100)>>

TextResult(stats, signals) ==
    [Stats |-> stats, Signals |-> signals,
     AIScore |-> calculateWeightedScore(signals, DefaultWeights)]

\* TextAnalyzer.Analyze
AnalyzeText(t) ==
    TextResult(calculateStats(t),
                 <<analyzeSentenceVariance(t), analyzeVocabularyRichness(t),
                   analyzeBurstiness(t), analyzePunctuationVariety(t), detectAIPhrases(t),
                   analyzeWordLengthVariance(t), analyzeContractions(t),
                   analyzeRepetition(t)>>)

---------------------------------------------------------------------------
(* Marker tables and byte statistics shared by the audio and video         *)
(* analyzers (audio_analyzer.go, video_analyzer.go).                       *)

\* bytes.ToLower(data)
BLower(d) ==
    Blob(ToLower(d.head), d.pad)

\* The bytes of each string of a list, and of each key of a list of
\* <<key, name>> pairs.
Each(strs) ==
    [k \in 1..Len(strs) |-> S(strs[k])]

Keyed(pairs) ==
    [k \in 1..Len(pairs) |-> <<S(pairs[k][1]), pairs[k][2]>>]

\* Some marker of the list occurs in the lower-cased data
ContainsSome(lower, markers) ==
    \E k \in 1..Len(markers) : BContains(lower, markers[k])

\* bytes.Contains(bytes.ToLower(data), marker) for some marker of the list
ContainsMarker(d, markers) ==
    ContainsSome(BLower(d), markers)

AIVideoMarkers ==
    Each(<<"runway", "pika", "sora", "gen-2", "gen2", "stable video", "stablevideo",
      "modelscope", "deforum", "animatediff", "zeroscope", "ai generated",
      "ai-generated", "synthetic", "dall-e", "midjourney">>)

containsAIMarker(d) ==
    ContainsMarker(d, AIVideoMarkers)

AIAudioMarkers ==
    Each(<<"elevenlabs", "eleven labs", "murf", "play.ht", "resemble", "descript",
      "synthesia", "wellsaid", "suno", "udio", "musicgen", "riffusion",
      "ai generated", "ai-generated", "synthetic voice", "text to speech",
      "text-to-speech", "tts", "voice clone", "cloned voice">>)

containsAIAudioMarker(d) ==
    ContainsMarker(d, AIAudioMarkers)

RecordingMarkers ==
    Each(<<"recorded", "recording", "studio", "microphone", "live", "concert",
      "session", "interview", "iphone", "android", "voice memo">>)

containsRecordingMarker(d) ==
    ContainsMarker(d, RecordingMarkers)

\* The number of iteration orders of a Go map that the model distinguishes.
MapOrders == 2

\* for key, name := range encoders { if contains(lower, key) { return name } }
\* Go iterates over a map in an unspecified order that changes from one range
\* statement to the next, so any key that occurs in the data can be the first
\* one met: rnd selects which.
FirstMet(encoders, hits, rnd) ==
    IF hits = {} THEN "" ELSE encoders[Sorted(hits)[(rnd % Cardinality(hits)) + 1]][2]

KeysIn(lower, encoders) ==
    {k \in 1..Len(encoders) : BContains(lower, encoders[k][1])}

RangeOverMap(d, encoders, rnd) ==
    FirstMet(encoders, KeysIn(BLower(d), encoders), rnd)

VideoEncoders ==
    Keyed(<< <<"lavf", "ffmpeg">>, <<"ffmpeg", "ffmpeg">>, <<"handbrake", "HandBrake">>,
       <<"premiere", "Adobe Premiere">>, <<"final cut", "Final Cut Pro">>,
       <<"davinci", "DaVinci Resolve">>, <<"x264", "x264">>, <<"x265", "x265">>,
       <<"runway", "Runway">>, <<"pika", "Pika Labs">>, <<"sora", "OpenAI Sora">>,
       <<"modelscope", "ModelScope">> >>)

extractEncoder(d, rnd) ==
    RangeOverMap(d, VideoEncoders, rnd)

AudioEncoders ==
    Keyed(<< <<"lame", "LAME">>, <<"ffmpeg", "ffmpeg">>, <<"audacity", "Audacity">>,
       <<"adobe", "Adobe Audition">>, <<"logic", "Logic Pro">>,
       <<"pro tools", "Pro Tools">>, <<"ableton", "Ableton Live">>,
       <<"fl studio", "FL Studio">>, <<"elevenlabs", "ElevenLabs">>,
       <<"suno", "Suno AI">>, <<"udio", "Udio">> >>)

extractAudioEncoder(d, rnd) ==
    RangeOverMap(d, AudioEncoders, rnd)

\* calculateEntropy(data[lo:hi]): the Shannon entropy of the bytes, over 8.
calculateEntropy(d, lo, hi) ==
    IF hi - lo = 0 THEN 0 ELSE ByteEntropy(d, lo, hi) \div 8

\* a | b on non-negative integers
RECURSIVE BitOr(_, _)
BitOr(a, b) ==
    IF a = 0 THEN b
    ELSE IF b = 0 THEN a
    ELSE (IF a % 2 = 1 \/ b % 2 = 1 THEN 1 ELSE 0) + 2 * BitOr(a \div 2, b \div 2)

\* binary.LittleEndian.Uint16(data[i:i+2]) and Uint32(data[i:i+4]), as Go ints
\* (sizes of 2^30 or more are represented by 2^30, as in BE32).
LE16(d, i) ==
    At(d, i) + 256 * At(d, i + 1)

LE32(d, i) ==
    IF At(d, i + 3) >= 64 THEN 2^30
    ELSE At(d, i) + 256 * (At(d, i + 1) + 256 * (At(d, i + 2) + 256 * At(d, i + 3)))

---------------------------------------------------------------------------
(* Audio analyzer (audio_analyzer.go) *)

AudioMetadata(format) ==
    [Format |-> format, SampleRate |-> 0, Channels |-> 0, BitDepth |-> 0, Bitrate |-> 0,
     HasID3 |-> FALSE, EncoderName |-> "", IsAIMarked |-> FALSE, HasRecording |-> FALSE]

MP3SampleRates == <<44100, 48000, 32000, 0>>
MP3Bitrates == <<0, 32, 40, 48, 56, 64, 80, 96, 112, 128, 160, 192, 224, 256, 320, 0>>

\* The syncsafe size of the ID3v2 tag:
\* int(data[6])<<21 | int(data[7])<<14 | int(data[8])<<7 | int(data[9])
ID3Size(d) ==
    BitOr(BitOr(At(d, 6) * 2^21, At(d, 7) * 2^14), BitOr(At(d, 8) * 2^7, At(d, 9)))

\* The ID3v2 tag: whether the file begins with one (found), its size and
\* whether its data is read (tagged): id3Size > 0 && id3Size+10 < len(data).
ID3Sized(n, id3Size) ==
    [found |-> TRUE, size |-> id3Size, tagged |-> id3Size > 0 /\ id3Size + 10 < n]

ID3Tag(d) ==
    IF BLen(d) > 10 /\ BytesAt(d, 0, ID3Magic) THEN ID3Sized(BLen(d), ID3Size(d))
    ELSE [found |-> FALSE, size |-> 0, tagged |-> FALSE]

\* The fields of the frame header header = BigEndian.Uint32(data[i:i+4]), read
\* from the byte that holds them: bitrateIdx = (header >> 12) & 0x0F and
\* srIdx = (header >> 10) & 0x03 lie in data[i+2], channelMode =
\* (header >> 6) & 0x03 in data[i+3].  The two tables are indexed under the
\* guards srIdx < 3 and bitrateIdx < 15, inside their 4 and 16 entries.
BitrateIdx(d, i) ==
    At(d, i + 2) \div 16

SrIdx(d, i) ==
    (At(d, i + 2) \div 4) % 4

ChannelMode(d, i) ==
    At(d, i + 3) \div 64

\* analyzeMP3 for the tag found, its data id3Data and the frame sync found at
\* i (-1: none found)
MP3Fields(d, n, tag, id3Data, i, rnd) ==
    [v |-> [Format |-> "mp3",
            SampleRate |-> IF i # -1 /\ SrIdx(d, i) < 3 THEN MP3SampleRates[SrIdx(d, i) + 1] ELSE 0,
            Channels |-> IF i = -1 THEN 0 ELSE IF ChannelMode(d, i) = 3 THEN 1 ELSE 2,
            BitDepth |-> 0,
            Bitrate |-> IF i # -1 /\ BitrateIdx(d, i) < 15 THEN MP3Bitrates[BitrateIdx(d, i) + 1]
                        ELSE 0,
            HasID3 |-> tag.found \/ (n >= 128 /\ BytesAt(d, n - 128, S("TAG"))),
            EncoderName |-> IF tag.tagged THEN extractAudioEncoder(id3Data, rnd) ELSE "",
            IsAIMarked |-> tag.tagged /\ containsAIAudioMarker(id3Data),
            HasRecording |-> tag.tagged /\ containsRecordingMarker(id3Data)],
     acc |-> (IF n > 10 THEN {<<0, 3>>} ELSE {}) \cup
             (IF tag.found THEN {<<6, 10>>} ELSE {}) \cup
             (IF tag.tagged THEN {<<10, 10 + tag.size>>} ELSE {}) \cup
             FindMarkerAcc(n - 4, i) \cup
             (IF i # -1 THEN {<<i, i + 4>>} ELSE {}) \cup
             (IF n >= 128 THEN {<<n - 128, n - 125>>} ELSE {}),
     walk |-> NoWalk]

MP3Tagged(d, tag, rnd) ==
    MP3Fields(d, BLen(d), tag, BSlice(d, 10, 10 + tag.size),
              FindMarker(d, BLen(d) - 4, 224..255), rnd)

analyzeMP3(d, rnd) ==
    MP3Tagged(d, ID3Tag(d), rnd)

\* The first i in [36, len(data)-8) with data[i:i+4] == "LIST", -1 when none.
FindLIST(d) ==
    FirstOf({i \in 36..(Min(BLen(d) - 8, Len(d.head)) - 1) : BytesAt(d, i, S("LIST"))})

\* if i+8+int(chunkSize) <= len(data), for the LIST chunk found at i
Listed(n, i, chunkSize) ==
    i # -1 /\ i + 8 + chunkSize <= n

\* analyzeWAV for the LIST chunk found at i (-1: none) with its size and data
WAVFields(d, n, fmt, i, chunkSize, listData) ==
    [v |-> [Format |-> "wav",
            SampleRate |-> IF fmt THEN LE32(d, 24) ELSE 0,
            Channels |-> IF fmt THEN LE16(d, 22) ELSE 0,
            BitDepth |-> IF fmt THEN LE16(d, 34) ELSE 0,
            Bitrate |-> 0, HasID3 |-> FALSE,
            EncoderName |-> IF fmt /\ LE16(d, 20) = 1 THEN "PCM" ELSE "",
            IsAIMarked |-> Listed(n, i, chunkSize) /\ containsAIAudioMarker(listData),
            HasRecording |-> Listed(n, i, chunkSize) /\ containsRecordingMarker(listData)],
     acc |-> {<<12, 16>>} \cup
             (IF fmt THEN {<<20, 22>>, <<22, 24>>, <<24, 28>>, <<34, 36>>} ELSE {}) \cup
             (IF 36 < n - 8 THEN {<<36, (IF i # -1 THEN i ELSE n - 9) + 4>>} ELSE {}) \cup
             (IF i # -1 THEN {<<i + 4, i + 8>>} ELSE {}) \cup
             (IF Listed(n, i, chunkSize) THEN {<<i + 8, i + 8 + chunkSize>>} ELSE {}),
     walk |-> NoWalk]

WAVChunk(d, i, chunkSize) ==
    WAVFields(d, BLen(d), BytesAt(d, 12, S("fmt ")), i, chunkSize,
              BSlice(d, i + 8, i + 8 + chunkSize))

WAVList(d, i) ==
    WAVChunk(d, i, LE32(d, i + 4))

analyzeWAV(d, rnd) ==
    IF BLen(d) < 44 THEN [v |-> AudioMetadata("wav"), acc |-> {}, walk |-> NoWalk]
    ELSE WAVList(d, FindLIST(d))

\* One iteration of the metadata block loop of analyzeFLAC at offset i: the
\* block is a comment block that fits (comment) and commentData is its data.
FLACComment(d, i, blockSize, comment, commentData, rnd) ==
    [isLast |-> At(d, i) >= 128, comment |-> comment,
     ai |-> comment /\ containsAIAudioMarker(commentData),
     encoder |-> IF comment THEN extractAudioEncoder(commentData, rnd) ELSE "",
     next |-> i + 4 + blockSize,
     acc |-> {<<i, i + 1>>, <<i + 1, i + 4>>} \cup
             (IF comment THEN {<<i + 4, i + 4 + blockSize>>} ELSE {})]

FLACSized(d, i, blockSize, rnd) ==
    FLACComment(d, i, blockSize, At(d, i) % 128 = 4 /\ i + 4 + blockSize <= BLen(d),
                BSlice(d, i + 4, i + 4 + blockSize), rnd)

FLACBlock(d, i, rnd) ==
    FLACSized(d, i, (At(d, i + 1) * 256 + At(d, i + 2)) * 256 + At(d, i + 3), rnd)

\* The walk w after the iteration at offset i that found block b.
FLACStep(i, w, b) ==
    [w EXCEPT !.offs = Append(@, i), !.ai = @ \/ b.ai,
              !.enc = IF b.comment THEN b.encoder ELSE @,
              !.acc = @ \cup b.acc,
              !.stuck = ~b.isLast /\ b.next <= i,
              !.end = b.next, !.broke = b.isLast]

\* k iterations from offset i on inside the zero padding: a block there has
\* type 0, size 0 and no last-block flag, so the loop only moves on by 4 until
\* it reaches len(data)-4 or 10000; the iterations are summarised.
FLACPadding(i, w, k) ==
    [w EXCEPT !.pad = k, !.stride = 4, !.end = i + 4 * k,
              !.acc = @ \cup {<<i, i + 4>>, <<i + 4 * (k - 1), i + 4 * (k - 1) + 4>>}]

\* The block loop from offset i: for offset < len(data)-4 && offset < 10000
RECURSIVE FLACWalk(_, _, _, _)
FLACLoop(d, rnd, w) ==
    IF w.broke \/ w.stuck THEN w ELSE FLACWalk(d, w.end, rnd, w)

FLACWalk(d, i, rnd, w) ==
    IF ~(i < Min(BLen(d) - 4, 10000)) THEN [w EXCEPT !.end = i]
    ELSE IF i >= Len(d.head) THEN FLACPadding(i, w, (Min(BLen(d) - 4, 10000) - i + 3) \div 4)
    ELSE FLACLoop(d, rnd, FLACStep(i, w, FLACBlock(d, i, rnd)))

FLACFields(d, w) ==
    [v |-> [AudioMetadata("flac") EXCEPT
              !.SampleRate = At(d, 18) * 2^12 + At(d, 19) * 2^4 + At(d, 20) \div 16,
              !.Channels = ((At(d, 20) \div 2) % 8) + 1,
              !.BitDepth = (At(d, 20) % 2) * 16 + At(d, 21) \div 16 + 1,
              !.IsAIMarked = w.ai,
              !.EncoderName = w.enc],
     acc |-> {<<18, 22>>} \cup w.acc,
     walk |-> w]

analyzeFLAC(d, rnd) ==
    IF BLen(d) < 42 THEN [v |-> AudioMetadata("flac"), acc |-> {}, walk |-> NoWalk]
    ELSE FLACFields(d, FLACWalk(d, 4, rnd, NoWalk))

\* The codec named in the first bytes of the stream
OGGCodec(header) ==
    IF BContains(header, S("OpusHead")) THEN "Opus"
    ELSE IF BContains(header, S("vorbis")) THEN "Vorbis"
    ELSE ""

OGGFields(d, n, codec) ==
    [v |-> [AudioMetadata("ogg") EXCEPT
              !.Format = IF codec = "Opus" THEN "opus" ELSE "ogg",
              !.EncoderName = codec,
              !.IsAIMarked = n > 500 /\ containsAIAudioMarker(BSlice(d, 0, Min(n, 5000)))],
     acc |-> {<<0, Min(n, 1000)>>} \cup (IF n > 500 THEN {<<0, Min(n, 5000)>>} ELSE {}),
     walk |-> NoWalk]

analyzeOGG(d, rnd) ==
    OGGFields(d, BLen(d), OGGCodec(BSlice(d, 0, Min(BLen(d), 1000))))

M4AFields(d, searchData, rnd) ==
    [v |-> [AudioMetadata("m4a") EXCEPT
              !.IsAIMarked = containsAIAudioMarker(searchData),
              !.EncoderName = extractAudioEncoder(searchData, rnd)],
     acc |-> {<<0, Min(BLen(d), 10000)>>},
     walk |-> NoWalk]

analyzeM4A(d, rnd) ==
    M4AFields(d, BSlice(d, 0, Min(BLen(d), 10000)), rnd)

AIAudioTools ==
    Each(<<"elevenlabs", "eleven labs", "murf", "play.ht", "resemble", "descript",
      "synthesia", "wellsaid", "amazon polly", "google tts", "azure speech",
      "suno", "udio", "musicgen", "riffusion">>)

\* audioAnalyzer.analyzeMetadata
analyzeAudioMetadata(meta) ==
    Clamp01(Milli(500)
            + (IF meta.IsAIMarked THEN Milli(350) ELSE 0)
            - (IF meta.HasRecording THEN Milli(200) ELSE 0)
            - (IF meta.HasID3 THEN Milli(100) ELSE 0)
            + (IF ContainsMarker(Blob(S(meta.EncoderName), 0), AIAudioTools)
               THEN Milli(300) ELSE 0))

StandardRates == {44100, 48000, 96000, 22050, 16000}

analyzeFormat(meta) ==
    Milli(500)
      + (IF meta.SampleRate > 0 /\ meta.SampleRate \notin StandardRates THEN Milli(100) ELSE 0)
      + (IF meta.SampleRate >= 96000 /\ meta.BitDepth >= 24 THEN Milli(100) ELSE 0)
      + (IF meta.Channels = 1 THEN Milli(100) ELSE 0)

\* The variance of a sequence of fixed-point numbers: the mean of the squared
\* deviations from the mean.
Variance(xs) ==
    VarianceAbout(xs, Mean(xs))

\* The regions i = 1..4 of regionSize bytes whose sample is not empty
Regions(n, regionSize) ==
    {i \in 1..4 : i * regionSize + Min(2000, n - i * regionSize) > i * regionSize}

\* calculateEntropy(data[start:end]) for end = start + min(2000, len(data)-start)
RegionEntropy(d, n, start) ==
    calculateEntropy(d, start, start + Min(2000, n - start))

\* The signal for the entropies of the regions
PatternSignal(entropies) ==
    IF Len(entropies) < 2 THEN Milli(500)
    ELSE IF Variance(entropies) > Milli(50) THEN Milli(600)
    ELSE Milli(400)

SampledRegions(d, n, regionSize, regions) ==
    [v |-> PatternSignal([k \in 1..Len(regions) |-> RegionEntropy(d, n, regions[k] * regionSize)]),
     acc |-> {<<regions[k] * regionSize,
                regions[k] * regionSize + Min(2000, n - regions[k] * regionSize)>> :
                k \in 1..Len(regions)}]

analyzePatterns(d, format) ==
    IF BLen(d) < 5000 THEN [v |-> Milli(500), acc |-> {}]
    ELSE SampledRegions(d, BLen(d), BLen(d) \div 5, Sorted(Regions(BLen(d), BLen(d) \div 5)))

analyzeQuality(meta, fileSize) ==
    Milli(500)
      + (IF meta.Bitrate > 0 /\ meta.Bitrate < 64 THEN Milli(100) ELSE 0)
      + (IF meta.Bitrate > 320 THEN Milli(100) ELSE 0)
      + (IF fileSize > 0 /\ fileSize < 10000 THEN Milli(200) ELSE 0)

AISignatureMarkers ==
    Each(<<"elevenlabs", "murf.ai", "play.ht", "resemble.ai", "suno", "udio", "generated",
      "synthetic", "ai voice", "text-to-speech", "tts", "voice clone">>)

detectAISignatures(d, meta) ==
    [v |-> Min(Unit,
               (IF ContainsMarker(BSlice(d, 0, Min(BLen(d), 50000)), AISignatureMarkers)
                THEN Milli(300) ELSE 0)
               + (IF meta.IsAIMarked THEN Milli(400) ELSE 0)),
     acc |-> {<<0, Min(BLen(d), 50000)>>}]

\* The windows of data[start:end], 100 bytes apart, each compared with the
\* window that follows it
RepeatedWindows(d, start, end, windows) ==
    [v |-> IF Cardinality({i \in windows :
                             byteSimilarity(d, start + i, start + i + 100, 100) > Milli(900)}) > 5
           THEN Milli(700) ELSE Milli(400),
     acc |-> {<<start, end>>} \cup {<<start + i, start + i + 200>> : i \in windows}]

NoiseSample(d, start, end) ==
    RepeatedWindows(d, start, end, {i \in 0..(end - start - 200 - 1) : i % 100 = 0})

analyzeNoiseProfile(d, format) ==
    IF BLen(d) < 10000 THEN [v |-> Milli(500), acc |-> {}]
    ELSE NoiseSample(d, BLen(d) \div 3, BLen(d) \div 3 + Min(5000, BLen(d) - BLen(d) \div 3))

\* DefaultAudioWeights: MetadataScore, FormatAnalysis, PatternAnalysis,
\* QualityIndicators, AISignatures, NoiseProfile.
DefaultAudioWeights ==
    <<Milli(250), Milli(150), Milli(200), Milli(150), Milli(150), Milli(100)>>

\* The parser of the format
AudioContainer(d, format, rnd) ==
    IF format = "mp3" THEN analyzeMP3(d, rnd)
    ELSE IF format = "wav" THEN analyzeWAV(d, rnd)
    ELSE IF format = "flac" THEN analyzeFLAC(d, rnd)
    ELSE IF format = "ogg" THEN analyzeOGG(d, rnd)
    ELSE IF format \in {"m4a", "aac"} THEN analyzeM4A(d, rnd)
    ELSE [v |-> AudioMetadata(format), acc |-> {}, walk |-> NoWalk]

\* Analyze from the metadata and the data signals computed (steps: patterns,
\* signatures, noise)
AudioSignals(d, format, meta, walk, steps, acc) ==
    Analysis(d, format, meta,
             <<analyzeAudioMetadata(meta), analyzeFormat(meta), steps[1].v,
               analyzeQuality(meta, BLen(d)), steps[2].v, steps[3].v>>,
             DefaultAudioWeights, walk, acc \cup Accesses(steps))

AudioParsed(d, format, parsed, acc) ==
    AudioSignals(d, format, parsed.v, parsed.walk,
                 <<analyzePatterns(d, format), detectAISignatures(d, parsed.v),
                   analyzeNoiseProfile(d, format)>>,
                 acc \cup parsed.acc)

AudioSniffed(d, fmt, rnd) ==
    AudioParsed(d, fmt.v, AudioContainer(d, fmt.v, rnd), fmt.acc)

\* AudioAnalyzer.Analyze under the map iteration order rnd.
AnalyzeAudio(d, rnd) ==
    AudioSniffed(d, AudioFormat(d), rnd)

---------------------------------------------------------------------------
(* Video analyzer (video_analyzer.go) *)

VideoMetadata(format) ==
    [Format |-> format, HasAudio |-> FALSE, HasVideo |-> FALSE, EncoderName |-> "",
     IsAIMarked |-> FALSE]

\* The atom loops without their break on a short atom.
MalformedAtom_Ignored(atomSize) ==
    FALSE

\* if atomSize < 8 { break }: an atom cannot be shorter than its own header.
MalformedAtom(atomSize) ==
    atomSize < 8

\* The reads of the header of the atom at offset: its size and its type
AtomHeader(offset) ==
    {<<offset, offset + 4>>, <<offset + 4, offset + 8>>}

\* atomType == t
AtomType(d, offset, t) ==
    BytesAt(d, offset + 4, S(t))

\* The walk w with the atom at offset visited
Visited(w, offset) ==
    [w EXCEPT !.offs = Append(@, offset), !.acc = @ \cup AtomHeader(offset)]

\* case "meta" of parseMovieAtom: metaData is data[lo:hi], enc the encoder it
\* names
MetaEncoder(w, metaData, lo, hi, enc) ==
    [w EXCEPT !.ai = @ \/ containsAIMarker(metaData),
              !.enc = IF enc # "" THEN enc ELSE @,
              !.acc = @ \cup {<<lo, hi>>}]

MetaAtom(w, metaData, lo, hi, rnd) ==
    MetaEncoder(w, metaData, lo, hi, extractEncoder(metaData, rnd))

\* The switch on the type of the atom of atomSize bytes at offset of the moov
\* atom m
MovieAtom(m, offset, atomSize, rnd, w) ==
    IF AtomType(m, offset, "trak")
    THEN [w EXCEPT !.audio = @ \/ BContains(BSlice(m, offset, offset + atomSize), S("soun")),
                   !.acc = @ \cup {<<offset, offset + atomSize>>}]
    ELSE IF AtomType(m, offset, "meta") /\ atomSize > 8
    THEN MetaAtom(w, BSlice(m, offset + 8, Min(offset + atomSize, offset + 1000)),
                  offset + 8, Min(offset + atomSize, offset + 1000), rnd)
    ELSE w

\* parseMovieAtom: the atom loop inside a moov atom m (a slice of the file),
\* from offset.
RECURSIVE MovieWalk(_, _, _, _)
MovieSized(m, offset, atomSize, rnd, w) ==
    IF MalformedAtom(atomSize) \/ offset + atomSize > BLen(m)
    THEN [w EXCEPT !.end = offset, !.broke = TRUE, !.acc = @ \cup AtomHeader(offset)]
    ELSE IF atomSize <= 0
    THEN [w EXCEPT !.end = offset, !.stuck = TRUE, !.acc = @ \cup AtomHeader(offset)]
    ELSE MovieWalk(m, offset + atomSize, rnd, MovieAtom(m, offset, atomSize, rnd, Visited(w, offset)))

MovieWalk(m, offset, rnd, w) ==
    IF ~(offset < BLen(m) - 8) THEN [w EXCEPT !.end = offset]
    ELSE IF offset + 8 > BLen(m) THEN [w EXCEPT !.end = offset, !.broke = TRUE]
    ELSE MovieSized(m, offset, BE32(m, offset), rnd, w)

\* case "moov" of analyzeMP4: mw is the walk inside the atom, of n bytes
MoovWalked(w, offset, atomSize, n, mw) ==
    [w EXCEPT !.inner = Append(@, [at |-> offset, len |-> atomSize, offs |-> mw.offs,
                                   end |-> mw.end, broke |-> mw.broke, stuck |-> mw.stuck]),
              !.audio = @ \/ mw.audio, !.ai = @ \/ mw.ai, !.enc = mw.enc,
              !.acc = @ \cup {<<offset, offset + atomSize>>},
              !.panic = @ \/ ~AllInRange(mw.acc, n)]

MoovAtom(w, offset, atomSize, moov, rnd) ==
    MoovWalked(w, offset, atomSize, BLen(moov),
               MovieWalk(moov, 8, rnd, [NoWalk EXCEPT !.enc = w.enc]))

\* case "ftyp": ftypData is data[lo:hi]
FtypAtom(w, ftypData, lo, hi) ==
    [w EXCEPT !.ai = @ \/ containsAIMarker(ftypData), !.acc = @ \cup {<<lo, hi>>}]

\* case "udta": udtaData is data[lo:hi]
UdtaAtom(w, udtaData, lo, hi, rnd) ==
    [w EXCEPT !.enc = extractEncoder(udtaData, rnd),
              !.ai = @ \/ containsAIMarker(udtaData),
              !.acc = @ \cup {<<lo, hi>>}]

\* The switch on the type of the atom of atomSize bytes at offset of the file
MP4Atom(d, offset, atomSize, rnd, w) ==
    IF AtomType(d, offset, "moov")
    THEN MoovAtom(w, offset, atomSize, BSlice(d, offset, offset + atomSize), rnd)
    ELSE IF AtomType(d, offset, "mdat") THEN [w EXCEPT !.chunks = @ + 1]
    ELSE IF AtomType(d, offset, "ftyp") /\ atomSize > 8
    THEN FtypAtom(w, BSlice(d, offset + 8, Min(offset + atomSize, offset + 100)),
                  offset + 8, Min(offset + atomSize, offset + 100))
    ELSE IF AtomType(d, offset, "udta") /\ atomSize > 8
    THEN UdtaAtom(w, BSlice(d, offset + 8, Min(offset + atomSize, offset + 500)),
                  offset + 8, Min(offset + atomSize, offset + 500), rnd)
    ELSE w

\* analyzeMP4: the atom loop over the file, from offset.
RECURSIVE MP4Walk(_, _, _, _)
\* if offset+atomSize > len(data) { atomSize = len(data) - offset } has been done
MP4Clamped(d, offset, atomSize, rnd, w) ==
    IF atomSize <= 0
    THEN [w EXCEPT !.end = offset, !.stuck = TRUE, !.acc = @ \cup AtomHeader(offset)]
    ELSE MP4Walk(d, offset + atomSize, rnd, MP4Atom(d, offset, atomSize, rnd, Visited(w, offset)))

MP4Sized(d, offset, atomSize, rnd, w) ==
    IF MalformedAtom(atomSize)
    THEN [w EXCEPT !.end = offset, !.broke = TRUE, !.acc = @ \cup AtomHeader(offset)]
    ELSE MP4Clamped(d, offset,
                    IF offset + atomSize > BLen(d) THEN BLen(d) - offset ELSE atomSize, rnd, w)

MP4Walk(d, offset, rnd, w) ==
    IF ~(offset < BLen(d) - 8) THEN [w EXCEPT !.end = offset]
    ELSE IF offset + 8 > BLen(d) THEN [w EXCEPT !.end = offset, !.broke = TRUE]
    ELSE MP4Sized(d, offset, BE32(d, offset), rnd, w)

MP4Fields(w) ==
    [v |-> [Format |-> "mp4", HasAudio |-> w.audio, HasVideo |-> TRUE,
            EncoderName |-> w.enc, IsAIMarked |-> w.ai],
     acc |-> w.acc, walk |-> w]

analyzeMP4(d, rnd) ==
    MP4Fields(MP4Walk(d, 0, rnd, NoWalk))

WebMFields(d, dataStr, rnd) ==
    [v |-> [Format |-> "webm", HasAudio |-> BContains(d, <<129>>), HasVideo |-> TRUE,
            EncoderName |-> extractEncoder(dataStr, rnd),
            IsAIMarked |-> containsAIMarker(dataStr)],
     acc |-> {<<0, Min(BLen(d), 2000)>>}, walk |-> NoWalk]

analyzeWebM(d, rnd) ==
    WebMFields(d, BSlice(d, 0, Min(BLen(d), 2000)), rnd)

AVIFields(d, long, headerData, rnd) ==
    [v |-> [Format |-> "avi", HasAudio |-> BContains(d, S("auds")), HasVideo |-> TRUE,
            EncoderName |-> IF long THEN extractEncoder(headerData, rnd) ELSE "",
            IsAIMarked |-> long /\ containsAIMarker(headerData)],
     acc |-> IF long THEN {<<0, 500>>} ELSE {}, walk |-> NoWalk]

analyzeAVI(d, rnd) ==
    AVIFields(d, BLen(d) > 500, BSlice(d, 0, 500), rnd)

AIVideoEncoders ==
    Each(<<"runway", "pika", "sora", "gen-2", "gen2", "stable video", "stablevideo",
      "modelscope", "deforum", "animatediff", "zeroscope">>)

ProEncoders ==
    Each(<<"premiere", "final cut", "davinci", "avid", "ffmpeg", "handbrake", "x264", "x265">>)

\* videoAnalyzer.analyzeMetadata; encoder is strings.ToLower(meta.EncoderName)
EncoderScore(meta, encoder) ==
    Clamp01(Milli(500)
            + (IF meta.IsAIMarked THEN Milli(400) ELSE 0)
            + (IF ~meta.HasAudio THEN Milli(150) ELSE 0)
            + (IF ContainsSome(encoder, AIVideoEncoders) THEN Milli(300) ELSE 0)
            - (IF ContainsSome(encoder, ProEncoders) THEN Milli(100) ELSE 0))

analyzeVideoMetadata(meta) ==
    EncoderScore(meta, BLower(Blob(S(meta.EncoderName), 0)))

analyzeContainer(d, format) ==
    IF BLen(d) < 1000 THEN [v |-> Milli(500), acc |-> {}]
    ELSE IF format \in {"mp4", "mov"}
    THEN [v |-> Milli(500)
                + (IF ~BContains(BSlice(d, 0, Min(BLen(d), 100000)), S("moov"))
                   THEN Milli(200) ELSE 0)
                + (IF ~BContains(d, S("mdat")) THEN Milli(200) ELSE 0),
          acc |-> {<<0, Min(BLen(d), 100000)>>}]
    ELSE IF format = "webm"
    THEN [v |-> Milli(500)
                + (IF ~BContains(BSlice(d, 0, Min(BLen(d), 1000)), <<24, 83, 128, 103>>)
                   THEN Milli(200) ELSE 0),
          acc |-> {<<0, Min(BLen(d), 1000)>>}]
    ELSE [v |-> Milli(500), acc |-> {}]

analyzeAudioPresence(meta) ==
    IF meta.HasAudio THEN Milli(300) ELSE Milli(700)

\* The pairs i < j of the 5 regions, in the order of the two loops
RegionPairs ==
    [k \in 1..25 |-> <<((k - 1) \div 5) + 1, ((k - 1) % 5) + 1>>]

\* The pairs that are compared: samples[i] != nil && samples[j] != nil
Comparisons(size) ==
    {k \in 1..25 : /\ RegionPairs[k][1] < RegionPairs[k][2]
                   /\ size[RegionPairs[k][1]] > 0
                   /\ size[RegionPairs[k][2]] > 0}

\* byteSimilarity of the samples i and j: 0 for samples of different lengths
SampleSimilarity(d, start, size, i, j) ==
    IF size[i] # size[j] THEN 0 ELSE byteSimilarity(d, start[i], start[j], size[i])

\* if sim > 0.5 { repetitionScore += sim }
Unusual(sim) ==
    IF sim > Milli(500) THEN sim ELSE 0

repetitionScore(d, start, size, comparisons) ==
    SumSeq([k \in 1..25 |->
              IF k \in comparisons
              THEN Unusual(SampleSimilarity(d, start, size, RegionPairs[k][1], RegionPairs[k][2]))
              ELSE 0])

ComparedSamples(d, start, size, comparisons) ==
    [v |-> IF /\ comparisons # {}
              /\ repetitionScore(d, start, size, comparisons) \div Cardinality(comparisons)
                   > Milli(300)
           THEN Milli(700) ELSE Milli(400),
     acc |-> {<<start[i], start[i] + size[i]>> : i \in {j \in 1..5 : size[j] > 0}}]

Sampled(d, start, size) ==
    ComparedSamples(d, start, size, Comparisons(size))

SampledFrom(d, start) ==
    Sampled(d, start, [i \in 1..5 |-> Min(1000, BLen(d) - start[i])])

analyzeTemporalPattern(d, format) ==
    IF BLen(d) < 10000 THEN [v |-> Milli(500), acc |-> {}]
    ELSE SampledFrom(d, [i \in 1..5 |-> i * (BLen(d) \div 6)])

analyzeEncodingSignature(d, meta) ==
    IF \E c \in {S("avc1"), S("h264"), S("hvc1"), S("hevc"), S("vp09"), S("av01")} :
         BContains(d, c)
    THEN Milli(450)
    ELSE IF meta.Format = "mp4" \/ meta.Format = "webm" THEN Milli(600)
    ELSE Milli(500)

\* The signal for the chunks data[start[i]:end[i]]
ChunkEntropies(d, start, end) ==
    [v |-> IF Variance([i \in 1..5 |-> calculateEntropy(d, start[i], end[i])]) > Milli(100)
           THEN Milli(600) ELSE Milli(400),
     acc |-> {<<start[i], end[i]>> : i \in 1..5}]

ChunksFrom(d, chunkSize, start) ==
    ChunkEntropies(d, start, [i \in 1..5 |-> start[i] + Min(chunkSize, BLen(d) - start[i])])

analyzeBitrateConsistency(d, fileSize) ==
    IF fileSize < 100000 THEN [v |-> Milli(600), acc |-> {}]
    ELSE IF BLen(d) < 10000 THEN [v |-> Milli(500), acc |-> {}]
    ELSE ChunksFrom(d, BLen(d) \div 5, [i \in 1..5 |-> (i - 1) * (BLen(d) \div 5)])

\* DefaultVideoWeights: MetadataScore, ContainerAnalysis, AudioPresence,
\* TemporalPattern, EncodingSignature, BitrateConsistency.
DefaultVideoWeights ==
    <<Milli(250), Milli(200), Milli(150), Milli(150), Milli(150), Milli(100)>>

\* The parser of the format
VideoContainer(d, format, rnd) ==
    IF format \in {"mp4", "mov"} THEN analyzeMP4(d, rnd)
    ELSE IF format = "webm" THEN analyzeWebM(d, rnd)
    ELSE IF format = "avi" THEN analyzeAVI(d, rnd)
    ELSE [v |-> VideoMetadata(format), acc |-> {}, walk |-> NoWalk]

\* Analyze from the metadata and the data signals computed (steps: container,
\* temporal pattern, bitrate consistency)
VideoSignals(d, format, meta, walk, steps, acc) ==
    Analysis(d, format, meta,
             <<analyzeVideoMetadata(meta), steps[1].v, analyzeAudioPresence(meta),
               steps[2].v, analyzeEncodingSignature(d, meta), steps[3].v>>,
             DefaultVideoWeights, walk, acc \cup Accesses(steps))

VideoParsed(d, format, parsed, acc) ==
    VideoSignals(d, format, parsed.v, parsed.walk,
                 <<analyzeContainer(d, format), analyzeTemporalPattern(d, format),
                   analyzeBitrateConsistency(d, BLen(d))>>,
                 acc \cup parsed.acc)

VideoSniffed(d, fmt, rnd) ==
    VideoParsed(d, fmt.v, VideoContainer(d, fmt.v, rnd), fmt.acc)

\* VideoAnalyzer.Analyze under the map iteration order rnd.
AnalyzeVideo(d, rnd) ==
    VideoSniffed(d, VideoFormat(d), rnd)

---------------------------------------------------------------------------
(* Detectors (text_detector.go, media_detectors.go) *)

\* What an HTTP call gives back: (value, err).  For an external detector the
\* value is the AI probability it reports, for a fetch it is the body.
Answer(err, value) ==
    [err |-> err, value |-> value]

\* One optional external detector: its name, whether the detector calls it,
\* and what it answers when called.
External(name, called, answer) ==
    [name |-> name, called |-> called, answer |-> answer]

\* The weights maps of the four aggregateScoresWeighted methods.
TextDetectorWeights ==
    [humanmark |-> Milli(1000), hive |-> Milli(1200), gptzero |-> Milli(1100),
     openai |-> Milli(900)]

ImageDetectorWeights ==
    [humanmark |-> Milli(1000), hive |-> Milli(1300)]

AudioDetectorWeights ==
    [humanmark |-> Milli(1000), hive |-> Milli(1300)]

VideoDetectorWeights ==
    [humanmark |-> Milli(1000), hive |-> Milli(1400)]

\* w := 1.0; if i < len(detectors) { if detectorWeight, ok := weights[detectors[i]]; ok { w = detectorWeight } }
DetectorWeight(detectors, weights, i) ==
    IF i <= Len(detectors) /\ detectors[i] \in DOMAIN weights
    THEN weights[detectors[i]] ELSE Unit

\* if totalWeight == 0 { return 0.5 }; return weightedSum / totalWeight
WeightedAverage(weightedSum, totalWeight) ==
    IF totalWeight = 0 THEN Unit \div 2 ELSE Div(weightedSum, totalWeight)

\* aggregateScoresWeighted(scores, detectors) with the weights map of its detector.
aggregateScoresWeighted(scores, detectors, weights) ==
    IF Len(scores) = 0 THEN Unit \div 2
    ELSE WeightedAverage(
             SumSeq([i \in 1..Len(scores) |->
                        Mul(scores[i], DetectorWeight(detectors, weights, i))]),
             SumSeq([i \in 1..Len(scores) |-> DetectorWeight(detectors, weights, i)]))

abs(x) ==
    IF x < 0 THEN 0 - x ELSE x

\* The comparison with the bound included.
Human_Inclusive(aiScore) ==
    aiScore <= Unit \div 2

\* human := aiScore < 0.5
Human(aiScore) ==
    aiScore < Unit \div 2

\* confidence := abs(aiScore-0.5) * 2
Confidence(aiScore) ==
    abs(aiScore - Unit \div 2) * 2

\* return nil, err
Failure(msg) ==
    [err |-> TRUE, msg |-> msg, panic |-> FALSE, Human |-> FALSE, Confidence |-> 0,
     AIScore |-> 0, ContentType |-> "", Detectors |-> <<>>, Internal |-> 0,
     Encoder |-> "", Used |-> "", Called |-> <<>>]

\* An external detector the code calls.
WasCalled(e) ==
    e.called

\* Every detector called is counted, whatever it returned.
Answered_Any(e) ==
    e.called

\* An external detector whose call returned without error: only then are its
\* score and name appended; a failing one is only logged.
Answered(e) ==
    e.called /\ ~e.answer.err

Names(externals) ==
    [i \in 1..Len(externals) |-> externals[i].name]

Scores(externals) ==
    [i \in 1..Len(externals) |-> externals[i].answer.value]

\* return &DetectionResult{Human: human, Confidence: confidence, AIScore: aiScore, ...}
\* Internal, Encoder, Used (which field of the input the payload came from)
\* and Called record what was done.
DetectionResult(contentType, analysis, encoder, used, detectors, called, aiScore) ==
    [err |-> FALSE, msg |-> "", panic |-> analysis.panic, Human |-> Human(aiScore),
     Confidence |-> Confidence(aiScore), AIScore |-> aiScore,
     ContentType |-> contentType, Detectors |-> detectors,
     Internal |-> analysis.AIScore, Encoder |-> encoder, Used |-> used,
     Called |-> called]

Aggregated(contentType, analysis, encoder, used, scores, detectors, called, weights) ==
    DetectionResult(contentType, analysis, encoder, used, detectors, called,
                    aggregateScoresWeighted(scores, detectors, weights))

\* The part of a detector after it has its payload: the internal analysis
\* comes first, then each external detector that is called and answers.
Opinions(contentType, analysis, encoder, used, externals, weights) ==
    Aggregated(contentType, analysis, encoder, used,
               <<analysis.AIScore>> \o Scores(SelectSeq(externals, Answered)),
               <<"humanmark">> \o Names(SelectSeq(externals, Answered)),
               Names(SelectSeq(externals, WasCalled)), weights)

\* The payload a detector settles on: the bytes, the field of the input they
\* came from, and the error that ends the call before any analysis.
Payload(data, used, err) ==
    [data |-> data, used |-> used, err |-> err]

\* text := input.Text; then string(input.Data); then the body fetched from input.URL
TextPayload(input, env) ==
    IF input.Text # <<>> THEN Payload(input.Text, "text", "")
    ELSE IF BLen(input.Data) > 0 THEN Payload(Expand(input.Data), "data", "")
    ELSE IF input.URL = <<>> THEN Payload(<<>>, "text", "")
    ELSE IF env.fetch.err THEN Payload(<<>>, "url", "failed to fetch text from URL")
    ELSE Payload(Expand(env.fetch.value), "url", "")

TextOpinions(payload, config, env) ==
    IF payload.err # "" THEN Failure(payload.err)
    ELSE IF payload.data = <<>> THEN Failure("no text content to analyze")
    ELSE Opinions(ContentTypeText,
                  [AIScore |-> AnalyzeText(payload.data).AIScore, panic |-> FALSE],
                  "", payload.used,
                  <<External("hive", config.HiveAPIKey # "", env.hive),
                    External("gptzero", config.GPTZeroAPIKey # "", env.gptzero),
                    External("openai", config.OpenAIAPIKey # "", env.openai)>>,
                  TextDetectorWeights)

\* textDetector.DetectText
DetectText(input, config, env) ==
    TextOpinions(TextPayload(input, env), config, env)

\* A failed fetch taken as an empty body.
MediaPayload_Lenient(input, env, fetchFailed, noData) ==
    IF BLen(input.Data) > 0 THEN Payload(input.Data, "data", "")
    ELSE IF input.URL = <<>> THEN Payload(EmptyBlob, "data", noData)
    ELSE Payload(IF env.fetch.err THEN EmptyBlob ELSE env.fetch.value, "url", "")

\* if len(input.Data) > 0 {...} else if input.URL != "" {fetch} else {return nil, errors.New(...)}
MediaPayload(input, env, fetchFailed, noData) ==
    IF BLen(input.Data) > 0 THEN Payload(input.Data, "data", "")
    ELSE IF input.URL = <<>> THEN Payload(EmptyBlob, "data", noData)
    ELSE IF env.fetch.err THEN Payload(EmptyBlob, "url", fetchFailed)
    ELSE Payload(env.fetch.value, "url", "")

ImageOpinions(payload, config, env) ==
    IF payload.err # "" THEN Failure(payload.err)
    ELSE Opinions(ContentTypeImage, AnalyzeImage(payload.data), "", payload.used,
                  <<External("hive", config.HiveAPIKey # "", env.hive)>>,
                  ImageDetectorWeights)

\* imageDetector.DetectImage
DetectImage(input, config, env) ==
    ImageOpinions(MediaPayload(input, env, "failed to fetch image",
                               "no image data provided"), config, env)

\* The audio and video results also record the encoder the analysis named.
EncoderOpinions(contentType, analysis, used, externals, weights) ==
    Opinions(contentType, analysis, analysis.Metadata.EncoderName, used, externals,
             weights)

AudioOpinions(payload, config, env, rnd) ==
    IF payload.err # "" THEN Failure(payload.err)
    ELSE EncoderOpinions(ContentTypeAudio, AnalyzeAudio(payload.data, rnd), payload.used,
                         <<External("hive", config.HiveAPIKey # "", env.hive)>>,
                         AudioDetectorWeights)

\* audioDetector.DetectAudio under the map iteration order rnd
DetectAudio(input, config, env, rnd) ==
    AudioOpinions(MediaPayload(input, env, "failed to fetch audio",
                               "no audio data provided"), config, env, rnd)

VideoOpinions(input, payload, config, env, rnd) ==
    IF payload.err # "" THEN Failure(payload.err)
    ELSE EncoderOpinions(ContentTypeVideo, AnalyzeVideo(payload.data, rnd), payload.used,
                         <<External("hive", config.HiveAPIKey # "" /\ input.URL # <<>>,
                                    env.hive)>>,
                         VideoDetectorWeights)

\* videoDetector.DetectVideo under the map iteration order rnd
DetectVideo(input, config, env, rnd) ==
    VideoOpinions(input,
                  MediaPayload(input, env, "failed to fetch video",
                               "video data or URL required for detection"),
                  config, env, rnd)

---------------------------------------------------------------------------
(* The orchestrator (detector.go) *)

\* The digest of head followed by zeros: the bytes up to the last non-zero
\* one and the count of zero bytes after it.
Digest(bytes, last) ==
    [sha256 |-> Blob(SubSeq(bytes.head, 1, last), bytes.pad + Len(bytes.head) - last)]

LastNonZero(h) ==
    IF \A i \in 1..Len(h) : h[i] = 0 THEN 0
    ELSE CHOOSE i \in 1..Len(h) : h[i] # 0 /\ \A j \in (i + 1)..Len(h) : h[j] = 0

\* sha256 as an injective function of the bytes written to it: the digest
\* stands for those bytes (trailing zero bytes counted, not spelled out).
Sha256(bytes) ==
    Digest(bytes, LastNonZero(bytes.head))

\* detector.hashContent
hashContent(input) ==
    IF input.Text # <<>> THEN Sha256(Blob(input.Text, 0))
    ELSE IF BLen(input.Data) > 0 THEN Sha256(input.Data)
    ELSE IF input.URL # <<>> THEN Sha256(Blob(input.URL, 0))
    ELSE Sha256(EmptyBlob)

\* if input.ContentType == ContentTypeUnknown || input.ContentType == "" {
\*     input.ContentType = d.detectContentType(input) }
Classified(input) ==
    IF input.ContentType \in {ContentTypeUnknown, ""}
    THEN [input EXCEPT !.ContentType = detectContentType(input)]
    ELSE input

\* switch input.ContentType { case ContentTypeText: ... default: unsupported }
Route(input, config, env, rnd) ==
    IF input.ContentType = ContentTypeText THEN DetectText(input, config, env)
    ELSE IF input.ContentType = ContentTypeImage THEN DetectImage(input, config, env)
    ELSE IF input.ContentType = ContentTypeAudio THEN DetectAudio(input, config, env, rnd)
    ELSE IF input.ContentType = ContentTypeVideo THEN DetectVideo(input, config, env, rnd)
    ELSE Failure("unsupported content type")

\* result.ContentHash = d.hashContent(input): Category is the content type
\* the call was routed by; a failed call carries no hash.
Hashed(input, result) ==
    [op |-> "Detect", Category |-> input.ContentType, result |-> result,
     ContentHash |-> IF result.err THEN Sha256(EmptyBlob) ELSE hashContent(input)]

Routed(input, config, env, rnd) ==
    Hashed(input, Route(input, config, env, rnd))

\* detector.Detect under the map iteration order rnd.
Detect(input, config, env, rnd) ==
    Routed(Classified(input), config, env, rnd)

---------------------------------------------------------------------------
(* Inputs: one file per container format, each cut at every length and     *)
(* followed by runs of zero bytes that cross the size thresholds of the    *)
(* analyzers.                                                               *)

\* JPEG: APP1/Exif segment naming a camera and GPS, a DQT and a SOF0 segment
JPEGFile ==
    <<255, 216, 255, 225, 0, 22>> \o S("Exif") \o <<0, 0>> \o S("Canon GPS") \o
    <<255, 219, 0, 4, 1, 1>> \o <<255, 192, 0, 17, 8, 0, 16, 0, 32, 3, 1, 2, 3>>

\* JPEG whose Exif segment names an AI generator
JPEGGenerated ==
    <<255, 216, 255, 225, 0, 30>> \o S("Exif") \o <<0, 0>> \o S("Midjourney v6")

\* PNG: IHDR, a tEXt chunk naming a generator, an IDAT chunk that declares
\* 256 bytes and holds 2
PNGFile ==
    PNGMagic \o <<13, 10, 26, 10>> \o
    <<0, 0, 0, 13>> \o S("IHDR") \o <<0, 0, 0, 16, 0, 0, 0, 16, 8, 6, 0, 0, 0>> \o <<1, 2, 3, 4>> \o
    <<0, 0, 0, 12>> \o S("tEXt") \o S("DALL-E") \o <<0, 0, 0, 0, 0, 0>> \o <<9, 9, 9, 9>> \o
    <<0, 0, 1, 0>> \o S("IDAT") \o <<5, 5>>

\* The four bytes of n, most significant first
Bytes4(n) ==
    <<n \div 16777216, (n \div 65536) % 256, (n \div 256) % 256, n % 256>>

\* PNG: the signature and an IHDR chunk of the given width, height and bit
\* depth (colour type 6), with a placeholder CRC
PNGImage(width, height, depth) ==
    PNGMagic \o <<13, 10, 26, 10>> \o <<0, 0, 0, 13>> \o S("IHDR") \o
    Bytes4(width) \o Bytes4(height) \o <<depth, 6, 0, 0, 0>> \o <<0, 0, 0, 0>>

PNG1024 == PNGImage(1024, 768, 8)

PNGWide == PNGImage(16909060, 65537, 16)

\* PNG whose first chunk declares 2^32-1 bytes
PNGOversized ==
    PNGMagic \o <<13, 10, 26, 10>> \o <<255, 255, 255, 255>> \o S("iTXt") \o S("ComfyUI")

GIFFile ==
    S("GIF89a") \o <<16, 0, 16, 0, 128, 0, 0>>

WebPFile ==
    S("RIFF") \o <<20, 0, 0, 0>> \o S("WEBPVP8 ") \o <<1, 2, 3, 4>>

BMPFile ==
    S("BM") \o <<70, 0, 0, 0, 0, 0, 0, 0, 54, 0, 0, 0>>

\* MP3: an ID3v2 tag of 24 bytes naming two encoders, then one frame header
MP3File ==
    S("ID3") \o <<3, 0, 0, 0, 0, 0, 24>> \o S("TSSE") \o <<0, 0, 0, 16>> \o
    S("lame elevenlabs ") \o <<255, 251, 144, 64, 1, 2, 3, 4, 5, 6>>

\* MP3 whose tag holds a title in UTF-16, with its byte order mark FF FE,
\* before the first frame (128 kbit/s, 44100 Hz, stereo)
MP3Unicode ==
    S("ID3") \o <<3, 0, 0, 0, 0, 0, 16>> \o S("TIT2") \o <<0, 0, 0, 6, 0, 0>> \o
    <<1, 255, 254, 104, 0, 0>> \o <<255, 251, 144, 64, 1, 2, 3, 4, 5, 6>>

\* MP3 without a tag: a frame header at offset 0
MP3Frame ==
    <<255, 251, 146, 192, 1, 2, 3, 4, 5, 6, 7, 8, 9>>

\* AAC: an ADTS frame header (sync word 0xFFF, MPEG-4, no CRC)
AACFile ==
    <<255, 241, 80, 128, 2, 31, 252, 33, 16, 4, 96, 140, 28>>

\* WAV: fmt chunk (PCM, 2 channels, 44100 Hz, 16 bit), a LIST chunk of 20 bytes
WAVFile ==
    S("RIFF") \o <<72, 0, 0, 0>> \o S("WAVE") \o S("fmt ") \o <<16, 0, 0, 0>> \o
    <<1, 0, 2, 0, 68, 172, 0, 0, 16, 177, 2, 0, 4, 0, 16, 0>> \o
    S("LIST") \o <<20, 0, 0, 0>> \o S("INFOISFT") \o S("studio suno ") \o
    S("data") \o <<4, 0, 0, 0, 1, 2, 3, 4>>

\* WAV whose LIST chunk declares 2^32-1 bytes
WAVOversized ==
    S("RIFF") \o <<72, 0, 0, 0>> \o S("WAVE") \o S("fmt ") \o <<16, 0, 0, 0>> \o
    <<1, 0, 1, 0, 128, 62, 0, 0, 0, 125, 0, 0, 2, 0, 16, 0>> \o
    S("LIST") \o <<255, 255, 255, 255>> \o S("INFO") \o <<1, 2, 3, 4, 5, 6, 7, 8>>

\* FLAC: STREAMINFO (34 bytes), a Vorbis comment naming two encoders, and a
\* last block that declares more bytes than follow
FLACFile ==
    S("fLaC") \o <<0, 0, 0, 34>> \o
    <<16, 0, 16, 0, 0, 0, 0, 0, 0, 0, 10, 196, 66, 240, 0, 0, 0, 0>> \o Zeros(16) \o
    <<4, 0, 0, 16>> \o S("audacity ffmpeg ") \o <<129, 0, 1, 0, 7, 7>>

OGGFile ==
    S("OggS") \o <<0, 2, 0, 0, 0, 0, 0, 0, 0, 0>> \o S("OpusHead") \o <<1, 2, 56, 1>> \o
    S("vorbis tts")

M4AFile ==
    <<0, 0, 0, 20>> \o S("ftypM4A ") \o <<0, 0, 0, 0>> \o S("M4A ") \o
    <<0, 0, 0, 24>> \o S("udta") \o S("logic pro tools ")

\* MP4: ftyp, moov holding mvhd, a sound trak and a meta atom naming two
\* encoders, udta, an atom shorter than its header
MP4File ==
    <<0, 0, 0, 16>> \o S("ftypisom") \o <<0, 0, 2, 0>> \o
    <<0, 0, 0, 60>> \o S("moov") \o
        <<0, 0, 0, 12>> \o S("mvhd") \o <<0, 0, 0, 0>> \o
        <<0, 0, 0, 16>> \o S("trak") \o S("soun") \o <<0, 0, 0, 0>> \o
        <<0, 0, 0, 24>> \o S("meta") \o S("runway ffmpeg   ") \o
    <<0, 0, 0, 16>> \o S("udta") \o S("x264 gen") \o
    <<0, 0, 0, 3>> \o S("free") \o <<1, 2, 3, 4>>

\* MP4 whose moov atom holds one atom of the given type naming a generator
MP4Moov(atomType) ==
    <<0, 0, 0, 12>> \o S("ftypisom") \o
    <<0, 0, 0, 32>> \o S("moov") \o
        <<0, 0, 0, 24>> \o atomType \o S("sora            ")

MP4MoovUdta == MP4Moov(S("udta"))

MP4MoovMeta == MP4Moov(S("meta"))

\* MP4 cut short: a moov atom that declares more than the file holds, whose
\* last inner atom overruns it
MP4Truncated ==
    <<0, 0, 0, 12>> \o S("ftypmp42") \o
    <<0, 1, 0, 0>> \o S("moov") \o
        <<0, 0, 0, 9>> \o S("meta") \o S("s") \o
        <<0, 0, 16, 0>> \o S("trak") \o S("vide")

\* MP4 whose media data atom declares 2^32-1 bytes
MP4Oversized ==
    <<0, 0, 0, 12>> \o S("ftypqt  ") \o <<255, 255, 255, 255>> \o S("mdat") \o <<1, 2, 3, 4, 5, 6, 7, 8, 9>>

WebMFile ==
    EBMLMagic \o <<1, 0, 0, 0, 0, 0, 0, 31, 66, 130, 132>> \o S("webm") \o
    <<129>> \o S("Lavf58 pika")

MKVFile ==
    EBMLMagic \o <<1, 0, 0, 0, 0, 0, 0, 35, 66, 130, 136>> \o S("matroska")

AVIFile ==
    S("RIFF") \o <<0, 16, 0, 0>> \o S("AVI LIST") \o <<64, 0, 0, 0>> \o S("hdrlavih") \o
    S("auds") \o S("premiere sora")

FLVFile ==
    S("FLV") \o <<1, 5, 0, 0, 0, 9, 0, 0, 0, 0>>

\* MPEG-TS: sync bytes 0x47 at 0, 188 and 376
TSFile ==
    <<71, 64, 17, 16>> \o Zeros(184) \o <<71, 64, 17, 17>> \o Zeros(184) \o <<71, 64>>

ImageFiles ==
    {JPEGFile, JPEGGenerated, PNGFile, PNG1024, PNGWide, PNGOversized, GIFFile, WebPFile, BMPFile}

AudioFiles ==
    {MP3File, MP3Unicode, MP3Frame, AACFile, WAVFile, WAVOversized, FLACFile, OGGFile, M4AFile}

VideoFiles ==
    {MP4File, MP4MoovUdta, MP4MoovMeta, MP4Truncated, MP4Oversized, WebMFile, MKVFile, AVIFile,
     FLVFile, TSFile}

---------------------------------------------------------------------------
(* Calls *)

\* The payloads given to the analyzers: every prefix of a file, alone and
\* followed by a few zero bytes (a declared size can then end inside the
\* buffer), and every whole file followed by each run of Pads.
Pads ==
    {600, 2500, 6000, 12000, 120000}

ShortPad == 40

Cuts(files, pads) ==
    UNION {{Blob(SubSeq(f, 1, k), p) : k \in 0..Len(f), p \in pads} : f \in files}

Whole(files, pads) ==
    {Blob(f, p) : f \in files, p \in pads}

Payloads(own, other) ==
    Cuts(own, {0, ShortPad}) \cup Whole(own, Pads) \cup Whole(other, {0, 2500})

\* The short inputs given to the sniffers: every sequence of at most SniffLen
\* bytes taken from the first bytes of the signatures.
SniffLen == 3

SniffBytes ==
    {255, 216, 73, 68, 51, 66, 77}

ShortInputs ==
    UNION {{Blob(h, 0) : h \in [1..n -> SniffBytes]} : n \in 0..SniffLen}

AllFiles ==
    ImageFiles \cup AudioFiles \cup VideoFiles

Sniffers ==
    {"ContentTypeFromMagicBytes", "detectImageFormat", "detectAudioFormat", "detectVideoFormat"}

SniffCalls ==
    {[op |-> "Sniff", sniffer |-> f, data |-> d] :
        f \in Sniffers, d \in ShortInputs \cup Cuts(AllFiles, {0}) \cup Whole(AllFiles, {ShortPad})}

Texts ==
    {<<>>,
     S("Hello world"),
     S("Hi!"),
     S("Hello world. This is a test. One two three."),
     S("The cat saw the CAT. The end"),
     S("In conclusion"),
     S("Hi. 42. ok"),
     S("No. 1. 2."),
     S("Wow?! (no) - 'yes': ;"),
     S("The quick brown fox jumps over the lazy dog near the river."),
     S("It's important to note that the castle was old. Furthermore, the castle keeps its secrets; nobody knows why! I don't think the castle cares. The castle sleeps. Who's there?"),
     S("As an AI language model, I cannot do that. In conclusion, it is worth noting that there are many factors. I hope this helps! Feel free to ask."),
     S("a. b. c! d? (e) f"),
     S("No. No? No! Yes: no; yes - no, (yes) no... yes"),
     S("word word word word word word word word word word word word word word word word word word word word word word")}

AnalyzeCalls ==
    {[op |-> "AnalyzeText", text |-> t] : t \in Texts} \cup
    {[op |-> "AnalyzeImage", data |-> d] : d \in Payloads(ImageFiles, AudioFiles \cup VideoFiles)} \cup
    {[op |-> "AnalyzeAudio", data |-> d] : d \in Payloads(AudioFiles, ImageFiles \cup VideoFiles)} \cup
    {[op |-> "AnalyzeVideo", data |-> d] : d \in Payloads(VideoFiles, ImageFiles \cup AudioFiles)}

\* DetectionInput, DetectorConfig and what the network answers during the call
Input(hint, text, data, url, filename) ==
    [ContentType |-> hint, Text |-> text, Data |-> data, URL |-> url, Filename |-> filename]

Config(hive, gptzero, openai) ==
    [HiveAPIKey |-> hive, GPTZeroAPIKey |-> gptzero, OpenAIAPIKey |-> openai]

Env(fetch, hive, gptzero, openai) ==
    [fetch |-> fetch, hive |-> hive, gptzero |-> gptzero, openai |-> openai]

Down == Answer(TRUE, 0)

\* An external detector: no key, or a key and its answer (an error, or a
\* probability in [0,1]).
ExternalCases ==
    {<<"", Down>>, <<"key", Down>>, <<"key", Answer(FALSE, 0)>>,
     <<"key", Answer(FALSE, Unit \div 2)>>, <<"key", Answer(FALSE, Unit)>>}

Fetches ==
    {Answer(TRUE, EmptyBlob), Answer(FALSE, EmptyBlob), Answer(FALSE, Blob(PNGFile, 0)),
     Answer(FALSE, Blob(WebMFile, 0))}

\* Calls that differ in what the input carries and in the hint: no key is set.
RoutedCalls ==
    {[op |-> "Detect", input |-> Input(hint, text, data, url, filename),
      config |-> Config("", "", ""), env |-> Env(fetch, Down, Down, Down)] :
        hint \in {"", ContentTypeUnknown, ContentTypeText, ContentTypeImage, ContentTypeVideo, "pdf"},
        text \in {<<>>, S("Hello world")},
        data \in {EmptyBlob, Blob(PNGFile, 0), Blob(MP3File, 0), Blob(<<1, 2, 3, 4, 5>>, 0)},
        url \in {<<>>, S("http://h/a.mp3?x=b.txt"), S("http://h/page")},
        filename \in {<<>>, S("photo.PNG"), S("photo.xyz")},
        fetch \in Fetches}

\* Calls that differ in the keys set and in what the external detectors answer.
OpinionCalls ==
    {[op |-> "Detect", input |-> input,
      config |-> Config(hive[1], gptzero[1], openai[1]),
      env |-> Env(Answer(FALSE, Blob(MP4File, 0)), hive[2], gptzero[2], openai[2])] :
        input \in {Input("", S("Hello world"), EmptyBlob, <<>>, <<>>),
                   Input("", <<>>, Blob(PNGFile, 0), <<>>, <<>>),
                   Input("", <<>>, Blob(OGGFile, 0), <<>>, S("voice.ogg")),
                   Input("", <<>>, Blob(MP4File, 0), <<>>, S("clip.mp4")),
                   Input("", <<>>, Blob(WebMFile, 0), S("http://h/clip.webm"), <<>>),
                   Input(ContentTypeVideo, <<>>, EmptyBlob, S("http://h/clip"), <<>>)},
        hive \in ExternalCases, gptzero \in ExternalCases, openai \in ExternalCases}

DetectCalls ==
    RoutedCalls \cup OpinionCalls

Calls ==
    SniffCalls \cup AnalyzeCalls \cup DetectCalls

---------------------------------------------------------------------------
(* The state machine.  The service keeps no state between calls: a run is   *)
(* one call (call), its result (ret), and the result of the same call made  *)
(* before (prev).                                                           *)

None == [op |-> "none"]

\* The sniffer a call names, applied to its bytes.
Sniffer(c) ==
    IF c.sniffer = "ContentTypeFromMagicBytes" THEN MagicBytes(c.data)
    ELSE IF c.sniffer = "detectImageFormat" THEN ImageFormat(c.data)
    ELSE IF c.sniffer = "detectAudioFormat" THEN AudioFormat(c.data)
    ELSE VideoFormat(c.data)

Sniffed(op, r) ==
    [op |-> op, v |-> r.v, acc |-> r.acc]

SniffFormatResult(c) ==
    Sniffed(c.op, Sniffer(c))

TextAnalysisResult(op, a) ==
    [op |-> op, Stats |-> a.Stats, Signals |-> a.Signals, AIScore |-> a.AIScore]

ImageResult(op, a) ==
    [op |-> op, Format |-> a.Format, Metadata |-> a.Metadata, Stats |-> a.Stats,
     Signals |-> a.Signals, AIScore |-> a.AIScore, Walk |-> a.Walk, acc |-> a.acc,
     panic |-> a.panic]

AnalysisResult(op, a) ==
    [op |-> op, Format |-> a.Format, Metadata |-> a.Metadata, Signals |-> a.Signals,
     AIScore |-> a.AIScore, Walk |-> a.Walk, acc |-> a.acc, panic |-> a.panic]

MapOrder == 0..(MapOrders - 1)

\* No rate limiter, no repository and no chain are built.
NoLimiter ==
    /\ limiter = None
    /\ now = 0
    /\ reqs = <<>>

NoRepository ==
    /\ repo = None
    /\ heap = <<>>
    /\ rets = <<>>

NoChain ==
    /\ handler = None
    /\ frames = <<>>
    /\ trace = <<>>

NoService ==
    /\ call = None
    /\ ret = None
    /\ prev = None

Init ==
    /\ call \in Calls
    /\ ret = None
    /\ prev = None
    /\ NoLimiter
    /\ NoRepository
    /\ NoChain

\* The call returns r.  The same call is made at most twice: prev keeps what
\* it returned the first time.
Returns(r) ==
    /\ prev = None
    /\ ret' = r
    /\ prev' = ret
    /\ UNCHANGED <<call, limiterVars, repoVars, chainVars>>

SniffFormat ==
    /\ call.op = "Sniff"
    /\ Returns(SniffFormatResult(call))

TextAnalysis ==
    /\ call.op = "AnalyzeText"
    /\ Returns(TextAnalysisResult(call.op, AnalyzeText(call.text)))

ImageAnalysis ==
    /\ call.op = "AnalyzeImage"
    /\ Returns(ImageResult(call.op, AnalyzeImage(call.data)))

AudioAnalysis ==
    /\ call.op = "AnalyzeAudio"
    /\ \E rnd \in MapOrder : Returns(AnalysisResult(call.op, AnalyzeAudio(call.data, rnd)))

VideoAnalysis ==
    /\ call.op = "AnalyzeVideo"
    /\ \E rnd \in MapOrder : Returns(AnalysisResult(call.op, AnalyzeVideo(call.data, rnd)))

Detection ==
    /\ call.op = "Detect"
    /\ \E rnd \in MapOrder : Returns(Detect(call.input, call.config, call.env, rnd))

Next ==
    \/ SniffFormat
    \/ TextAnalysis
    \/ ImageAnalysis
    \/ AudioAnalysis
    \/ VideoAnalysis
    \/ Detection

Spec ==
    Init /\ [][Next]_vars

---------------------------------------------------------------------------
(* The score of a signal set *)

\* the analyzers: every one is built by its constructor, with the default
\* weights of its modality
Modalities == {"text", "image", "audio", "video"}

NewAnalyzer(modality) ==
    [modality |-> modality,
     weights |-> IF modality = "text" THEN DefaultWeights
                 ELSE IF modality = "image" THEN DefaultImageWeights
                 ELSE IF modality = "audio" THEN DefaultAudioWeights
                 ELSE DefaultVideoWeights]

\* Signal sets with values in [0, 1]: every combination of the extreme and
\* the neutral values, every set of equal signals, and rising and falling
\* sets.
SignalValues == {0, Unit \div 2, Unit}

Tenths == 10

SignalSets(n) ==
    [1..n -> SignalValues]
        \cup {[k \in 1..n |-> (c * Unit) \div Tenths] : c \in 0..Tenths}
        \cup {[k \in 1..n |-> (k * Unit) \div Tenths],
              [k \in 1..n |-> ((n - k) * Unit) \div Tenths]}

ScoreCallsOf(a) ==
    {[op |-> "calculateWeightedScore", analyzer |-> a, signals |-> s] :
        s \in SignalSets(Len(a.weights))}

ScoreCalls == UNION {ScoreCallsOf(NewAnalyzer(m)) : m \in Modalities}

ScoreInit ==
    /\ call \in ScoreCalls
    /\ ret = None
    /\ prev = None
    /\ NoLimiter
    /\ NoRepository
    /\ NoChain

WeightedScore ==
    /\ call.op = "calculateWeightedScore"
    /\ Returns([op |-> call.op,
                score |-> calculateWeightedScore(call.signals, call.analyzer.weights)])

ScoreNext ==
    WeightedScore

ScoreSpec ==
    ScoreInit /\ [][ScoreNext]_vars

---------------------------------------------------------------------------
(* The rate limiter of the HTTP layer: RateLimit, rateLimiter.allow,       *)
(* rateLimiter.remaining and rateLimiter.cleanup.  The clock counts ticks. *)
(* A limited request is handled in two steps, allow and the rest, and the  *)
(* steps of concurrent requests interleave; allow, remaining and cleanup   *)
(* each hold the limiter's mutex for their whole body.                     *)

ClientIPs == {"10.0.0.1", "10.0.0.2"}

Paths == {"/", "/health"}

StatusOK == 200

StatusTooManyRequests == 429

\* requestsPerMinute: the configuration accepts every integer
MaxLimit == 1

Limits == 0..MaxLimit

\* time.Minute, in ticks
Window == 1

MaxTime == Window + 1

MaxRequests == 3

\* &clientRequests{count, resetAt}
ClientRequests(count, resetAt) ==
    [count |-> count, resetAt |-> resetAt]

\* &rateLimiter{requests: make(map), limit, window}: no client has an entry
NewRateLimiter(requestsPerMinute) ==
    [op |-> "RateLimit", requests |-> [ip \in ClientIPs |-> None],
     limit |-> requestsPerMinute, window |-> Window]

\* client, exists := rl.requests[clientIP]
Exists(rl, clientIP) ==
    rl.requests[clientIP] # None

\* now.After(client.resetAt)
Expired(client, t) ==
    t > client.resetAt

\* client.count > rl.limit: one request too late
Exhausted_Late(client, limit) ==
    client.count > limit

\* client.count >= rl.limit
Exhausted(client, limit) ==
    client.count >= limit

Allowed(rl, clientIP, client) ==
    [ok |-> TRUE, requests |-> [rl.requests EXCEPT ![clientIP] = client]]

Denied(rl) ==
    [ok |-> FALSE, requests |-> rl.requests]

\* allow at time t: whether the request passes, and the map it leaves
allow(rl, clientIP, t) ==
    IF ~Exists(rl, clientIP) THEN Allowed(rl, clientIP, ClientRequests(1, t + rl.window))
    ELSE IF Expired(rl.requests[clientIP], t)
    THEN Allowed(rl, clientIP, ClientRequests(1, t + rl.window))
    ELSE IF Exhausted(rl.requests[clientIP], rl.limit) THEN Denied(rl)
    ELSE Allowed(rl, clientIP,
                 ClientRequests(rl.requests[clientIP].count + 1, rl.requests[clientIP].resetAt))

remaining(rl, clientIP) ==
    IF Exists(rl, clientIP) THEN Max(0, rl.limit - rl.requests[clientIP].count)
    ELSE rl.limit

\* The window of the client that is open at time t (its resetAt), 0 if none
OpenWindow(rl, clientIP, t) ==
    IF ~Exists(rl, clientIP) THEN 0
    ELSE IF Expired(rl.requests[clientIP], t) THEN 0
    ELSE rl.requests[clientIP].resetAt

\* A request: who sent it, the step its handler is at, the status answered
\* (0 before the answer), the window open for its client when the handler
\* decided, and the X-RateLimit-Remaining header.
Request(clientIP, path) ==
    [ip |-> clientIP, path |-> path, pc |-> "allow", status |-> 0, window |-> 0,
     remaining |-> -1]

RateLimitInit ==
    /\ \E requestsPerMinute \in Limits : limiter = NewRateLimiter(requestsPerMinute)
    /\ now = 0
    /\ reqs = <<>>
    /\ NoService
    /\ NoRepository
    /\ NoChain

Steps(rs) ==
    /\ reqs' = rs
    /\ UNCHANGED <<now, serviceVars, repoVars, chainVars>>

\* A client sends a request.
Arrive ==
    /\ Len(reqs) < MaxRequests
    /\ \E clientIP \in ClientIPs, path \in Paths :
          Steps(Append(reqs, Request(clientIP, path)))
    /\ UNCHANGED limiter

\* The handler passes a health check on: next.ServeHTTP(w, r)
SkipHealth(i) ==
    /\ reqs[i].pc = "allow"
    /\ reqs[i].path = "/health"
    /\ Steps([reqs EXCEPT ![i].pc = "done", ![i].status = StatusOK,
                          ![i].window = OpenWindow(limiter, reqs[i].ip, now)])
    /\ UNCHANGED limiter

Answered429(i, window) ==
    [reqs EXCEPT ![i].pc = "done", ![i].status = StatusTooManyRequests, ![i].window = window]

Passed(i, window) ==
    [reqs EXCEPT ![i].pc = "remaining", ![i].window = window]

AfterAllow(i, clientIP, a) ==
    /\ limiter' = [limiter EXCEPT !.requests = a.requests]
    /\ Steps(IF a.ok THEN Passed(i, a.requests[clientIP].resetAt)
             ELSE Answered429(i, a.requests[clientIP].resetAt))

\* limiter.allow(clientIP), and the answer 429 when it refuses
Allow(i) ==
    /\ reqs[i].pc = "allow"
    /\ reqs[i].path # "/health"
    /\ AfterAllow(i, reqs[i].ip, allow(limiter, reqs[i].ip, now))

\* limiter.remaining(clientIP), the headers and next.ServeHTTP(w, r)
Forward(i) ==
    /\ reqs[i].pc = "remaining"
    /\ Steps([reqs EXCEPT ![i].pc = "done", ![i].status = StatusOK,
                          ![i].remaining = remaining(limiter, reqs[i].ip)])
    /\ UNCHANGED limiter

\* One run of the loop of cleanup: the expired entries are deleted.
Cleanup ==
    /\ limiter' = [limiter EXCEPT !.requests =
                      [ip \in ClientIPs |->
                          IF ~Exists(limiter, ip) THEN None
                          ELSE IF Expired(limiter.requests[ip], now) THEN None
                          ELSE limiter.requests[ip]]]
    /\ UNCHANGED <<now, reqs, serviceVars, repoVars, chainVars>>

Tick ==
    /\ now < MaxTime
    /\ now' = now + 1
    /\ UNCHANGED <<limiter, reqs, serviceVars, repoVars, chainVars>>

RateLimitNext ==
    \/ Arrive
    \/ \E i \in 1..Len(reqs) : SkipHealth(i)
    \/ \E i \in 1..Len(reqs) : Allow(i)
    \/ \E i \in 1..Len(reqs) : Forward(i)
    \/ Cleanup
    \/ Tick

RateLimitSpec ==
    RateLimitInit /\ [][RateLimitNext]_vars

---------------------------------------------------------------------------
(* Chain: the middleware are functions from a handler to a handler; each   *)
(* one, as in the middleware of the package, runs its part before the      *)
(* request, calls next.ServeHTTP and runs its part after it.  The handler  *)
(* built by Chain serves one request, one call and one return at a time.   *)

MiddlewareNames == {"mw1", "mw2", "mw3"}

MaxChain == 3

\* The handler at the end of the chain
Final == [kind |-> "final"]

\* middlewares[i](final): the handler of middleware m around next
Wrap(m, next) ==
    [kind |-> "middleware", name |-> m, next |-> next]

\* for i := len(middlewares) - 1; i >= 0; i-- { final = middlewares[i](final) }
RECURSIVE ApplyDown(_, _, _)
ApplyDown(middlewares, i, final) ==
    IF i < 1 THEN final
    ELSE ApplyDown(middlewares, i - 1, Wrap(middlewares[i], final))

\* The same loop from the first middleware to the last
RECURSIVE ApplyUp(_, _, _)
ApplyUp(middlewares, i, final) ==
    IF i > Len(middlewares) THEN final
    ELSE ApplyUp(middlewares, i + 1, Wrap(middlewares[i], final))

Chain_InOrder(middlewares, final) ==
    ApplyUp(middlewares, 1, final)

\* Chain(middlewares...)(final)
Chain(middlewares, final) ==
    ApplyDown(middlewares, Len(middlewares), final)

ChainCalls ==
    UNION {{[op |-> "Chain", middlewares |-> ms] : ms \in [1..n -> MiddlewareNames]} :
             n \in 0..MaxChain}

\* A call of ServeHTTP in progress: the handler and where it is
Frame(h) ==
    [h |-> h, pc |-> "enter"]

ChainInit ==
    /\ call \in ChainCalls
    /\ ret = None
    /\ prev = None
    /\ handler = None
    /\ frames = <<>>
    /\ trace = <<>>
    /\ NoLimiter
    /\ NoRepository

Top == frames[Len(frames)]

Pop == SubSeq(frames, 1, Len(frames) - 1)

ChainStep(h, fs, tr) ==
    /\ handler' = h
    /\ frames' = fs
    /\ trace' = tr
    /\ UNCHANGED <<serviceVars, limiterVars, repoVars>>

\* handler := Chain(middlewares...)(final)
Build ==
    /\ call.op = "Chain"
    /\ handler = None
    /\ ChainStep(Chain(call.middlewares, Final), frames, trace)

\* handler.ServeHTTP(rec, req)
ServeHTTP ==
    /\ handler # None
    /\ frames = <<>>
    /\ trace = <<>>
    /\ ChainStep(handler, <<Frame(handler)>>, trace)

\* A middleware runs its part before the request and calls next.ServeHTTP.
BeforeNext ==
    /\ frames # <<>>
    /\ Top.pc = "enter"
    /\ Top.h.kind = "middleware"
    /\ ChainStep(handler,
                 Append([frames EXCEPT ![Len(frames)].pc = "after"], Frame(Top.h.next)),
                 Append(trace, <<Top.h.name, "before">>))

\* The final handler runs and returns.
Handle ==
    /\ frames # <<>>
    /\ Top.pc = "enter"
    /\ Top.h.kind = "final"
    /\ ChainStep(handler, Pop, Append(trace, <<"handler">>))

\* next.ServeHTTP has returned: the middleware runs its part after the
\* request and returns.
AfterNext ==
    /\ frames # <<>>
    /\ Top.pc = "after"
    /\ ChainStep(handler, Pop, Append(trace, <<Top.h.name, "after">>))

ChainNext ==
    \/ Build
    \/ ServeHTTP
    \/ BeforeNext
    \/ Handle
    \/ AfterNext

ChainSpec ==
    ChainInit /\ [][ChainNext]_vars

---------------------------------------------------------------------------
(* The repositories (internal/repository).  A Job is a struct; its         *)
(* Detectors field is a slice, a reference to an array of the heap and a   *)
(* length: copying a Job copies the reference, not the array.  A caller    *)
(* keeps the Job every call returned to it and may write to its fields and *)
(* to the elements of its slice.  CreateJob and GetJob of the in-memory    *)
(* repository hold its mutex for their whole body.                         *)

MaxCalls == 3

\* []string: nil, or the array at heap[array] and its length
Slice(array, len) ==
    [array |-> array, len |-> len]

NilSlice == Slice(0, 0)

\* The elements of a slice
Elements(h, s) ==
    IF s.array = 0 THEN <<>> ELSE SubSeq(h[s.array], 1, s.len)

Job(contentType, human, confidence, detectors) ==
    [ID |-> 0, ContentType |-> contentType, Human |-> human, Confidence |-> confidence,
     Detectors |-> detectors, CreatedAt |-> -1, UpdatedAt |-> -1]

\* What a caller reads in a Job: its fields and the elements of Detectors
Read(h, job) ==
    [job EXCEPT !.Detectors = Elements(h, job.Detectors)]

\* The jobs the callers create: the detectors are a slice of the caller
DetectorLists == {<<>>, <<"humanmark", "hive">>}

JobValues ==
    {<<ContentTypeText, TRUE, Milli(900)>>, <<ContentTypeImage, FALSE, Milli(800)>>}

\* generateID: 12 random bytes in hexadecimal.  The n-th ID drawn is new; it
\* is written n.
JobIDs == 1..MaxCalls

generateID(n) ==
    n

Created(rs) ==
    SelectSeq(rs, LAMBDA r : r.op = "CreateJob")

NewMemory ==
    [kind |-> "memory", jobs |-> [id \in JobIDs |-> None]]

NewPostgres(connString) ==
    [kind |-> "postgres", connString |-> connString]

\* (*Job, error) as the caller got it, and what the caller read in the Job
\* when the call returned
Returned(op, id, job, err, h) ==
    [op |-> op, id |-> id, job |-> job, err |-> err,
     seen |-> IF err = "" THEN Read(h, job) ELSE None]

RepoInit ==
    /\ repo \in {NewMemory, NewPostgres("postgres://db")}
    /\ heap = <<>>
    /\ rets = <<>>
    /\ NoService
    /\ NoLimiter
    /\ NoChain

RepoStep(r, h, rs) ==
    /\ repo' = r
    /\ heap' = h
    /\ rets' = rs
    /\ UNCHANGED <<serviceVars, limiterVars, chainVars>>

\* job.ID = generateID(); job.CreatedAt = time.Now(); job.UpdatedAt = job.CreatedAt
Stamped(job, id, t) ==
    [job EXCEPT !.ID = id, !.CreatedAt = t, !.UpdatedAt = t]

\* stored := job; r.jobs[job.ID] = &stored (the PostgreSQL repository
\* stores nothing)
Stored(r, job) ==
    IF r.kind = "memory" THEN [r EXCEPT !.jobs[job.ID] = job] ELSE r

CreateJobOf(job, h) ==
    RepoStep(Stored(repo, job), h, Append(rets, Returned("CreateJob", job.ID, job, "", h)))

\* A caller builds a Job around its slice and calls CreateJob.
CreateJob ==
    /\ Len(rets) < MaxCalls
    /\ \E v \in JobValues, ds \in DetectorLists :
          CreateJobOf(Stamped(Job(v[1], v[2], v[3],
                                  IF ds = <<>> THEN NilSlice ELSE Slice(Len(heap) + 1, Len(ds))),
                              generateID(Len(Created(rets)) + 1), now),
                      IF ds = <<>> THEN heap ELSE Append(heap, ds))

ErrNotFound == "not found"

\* result := *job; return &result, nil -- or nil, ErrNotFound
GetJobOf(r, id) ==
    IF r.kind = "memory"
    THEN IF r.jobs[id] # None THEN Returned("GetJob", id, r.jobs[id], "", heap)
         ELSE Returned("GetJob", id, None, ErrNotFound, heap)
    ELSE Returned("GetJob", id, None, ErrNotFound, heap)

GetJob ==
    /\ Len(rets) < MaxCalls
    /\ \E id \in JobIDs : RepoStep(repo, heap, Append(rets, GetJobOf(repo, id)))

\* A caller writes to a field of a Job it got: job1.Confidence = 0.5
WriteField ==
    \E k \in 1..Len(rets) :
        /\ rets[k].err = ""
        /\ rets[k].job.Confidence # Milli(500)
        /\ RepoStep(repo, heap, [rets EXCEPT ![k].job.Confidence = Milli(500)])

\* A caller writes to an element of the Detectors of a Job it got:
\* job.Detectors[0] = "modified"
WriteElement ==
    \E k \in 1..Len(rets) :
        /\ rets[k].err = ""
        /\ rets[k].job.Detectors.len > 0
        /\ heap[rets[k].job.Detectors.array][1] # "modified"
        /\ RepoStep(repo, [heap EXCEPT ![rets[k].job.Detectors.array][1] = "modified"], rets)

RepoNext ==
    \/ CreateJob
    \/ GetJob
    \/ WriteField
    \/ WriteElement

RepoSpec ==
    RepoInit /\ [][RepoNext]_vars

---------------------------------------------------------------------------
(* The size of an ID3v2 tag, on every header *)

\* The values of a size byte: the ends of the 7-bit and of the 8-bit range
SizeBytes == {0, 1, 127, 128, 255}

\* "ID3", version 2.3, no flags, the four size bytes, one byte of tag
ID3Header(b6, b7, b8, b9) ==
    Blob(ID3Magic \o <<3, 0, 0, b6, b7, b8, b9, 0>>, 0)

ID3Calls ==
    {[op |-> "ID3Size", data |-> ID3Header(b6, b7, b8, b9)] :
        b6 \in SizeBytes, b7 \in SizeBytes, b8 \in SizeBytes, b9 \in SizeBytes}

ID3Init ==
    /\ call \in ID3Calls
    /\ ret = None
    /\ prev = None
    /\ NoLimiter
    /\ NoRepository
    /\ NoChain

\* analyzeMP3 reads the tag of the header: its size, and whether its
\* payload lies inside the data
TagSize ==
    /\ call.op = "ID3Size"
    /\ Returns([op |-> call.op, size |-> ID3Size(call.data), tag |-> ID3Tag(call.data)])

ID3Next ==
    TagSize

ID3Spec ==
    ID3Init /\ [][ID3Next]_vars

---------------------------------------------------------------------------
(* Configuration and CORS (config.go, middleware.go).  The environment is   *)
(* read by Load, the configuration is checked by Validate, and a server     *)
(* whose configuration is valid answers requests through                    *)
(* CORS(cfg.AllowedOrigins).  Strings are sequences of bytes.               *)

Wildcard == S("*")

Production == S("production")

\* strings.Split(s, sep) for a separator of one byte
RECURSIVE Split(_, _)
Split(s, sep) ==
    IF \A i \in 1..Len(s) : s[i] # sep THEN <<s>>
    ELSE <<SubSeq(s, 1, FirstOf({i \in 1..Len(s) : s[i] = sep}) - 1)>> \o
         Split(SubSeq(s, FirstOf({i \in 1..Len(s) : s[i] = sep}) + 1, Len(s)), sep)

\* The parts of getEnvAsSlice that are not empty once trimmed
TrimmedParts(parts) ==
    SelectSeq([k \in 1..Len(parts) |-> TrimSpace(parts[k])], LAMBDA part : part # <<>>)

OrDefault(result, defaultValue) ==
    IF Len(result) > 0 THEN result ELSE defaultValue

getEnvAsSlice(value, defaultValue) ==
    IF value # <<>> THEN OrDefault(TrimmedParts(Split(value, 44)), defaultValue)
    ELSE defaultValue

getEnvOrDefault(value, defaultValue) ==
    IF value # <<>> THEN value ELSE defaultValue

IsProduction(c) ==
    c.Environment = Production

\* The production defaults of Load
ProductionDefaults(cfg) ==
    IF IsProduction(cfg)
    THEN [cfg EXCEPT !.AllowedOrigins = IF @[1] = Wildcard THEN <<>> ELSE @,
                     !.APIKeyRequired = TRUE]
    ELSE cfg

\* config.Load in the environment env; PORT, MAX_UPLOAD_SIZE,
\* RATE_LIMIT_PER_MINUTE and API_KEY_REQUIRED are not set
Load(env) ==
    ProductionDefaults(
        [Environment |-> getEnvOrDefault(env.ENV, S("development")),
         Port |-> 8080,
         DatabaseURL |-> env.DATABASE_URL,
         HiveAPIKey |-> env.HIVE_API_KEY,
         OpenAIAPIKey |-> <<>>,
         GPTZeroAPIKey |-> <<>>,
         MaxUploadSize |-> 100 * 1024 * 1024,
         RateLimitPerMinute |-> 60,
         AllowedOrigins |-> getEnvAsSlice(env.ALLOWED_ORIGINS, <<Wildcard>>),
         APIKeyRequired |-> FALSE])

\* Config.Validate: the errors found
Validate(c) ==
    UNION {
        IF c.Port < 1 \/ c.Port > 65535 THEN {"invalid port"} ELSE {},
        IF c.Environment \notin {S("development"), S("staging"), Production}
        THEN {"invalid environment"} ELSE {},
        IF IsProduction(c) /\ c.DatabaseURL = <<>>
        THEN {"DATABASE_URL is required in production"} ELSE {},
        IF IsProduction(c) /\ Len(c.AllowedOrigins) = 0
        THEN {"ALLOWED_ORIGINS must be set in production (not *)"} ELSE {},
        IF c.HiveAPIKey = <<>> /\ c.OpenAIAPIKey = <<>> /\ c.GPTZeroAPIKey = <<>>
           /\ IsProduction(c)
        THEN {"at least one detection API key is required"} ELSE {},
        IF c.MaxUploadSize < 1024 THEN {"MAX_UPLOAD_SIZE too small"} ELSE {},
        IF c.MaxUploadSize > 1024 * 1024 * 1024 THEN {"MAX_UPLOAD_SIZE too large"} ELSE {} }

\* The origins CORS enters in its map: those in front of the first "*"
OriginMap(allowedOrigins) ==
    {allowedOrigins[i] : i \in {k \in 1..Len(allowedOrigins) :
                                   \A j \in 1..k : allowedOrigins[j] # Wildcard}}

AllowAll(allowedOrigins) ==
    \E i \in 1..Len(allowedOrigins) : allowedOrigins[i] = Wildcard

\* No header is the empty string, as Header.Get reads it.
Response(allowOrigin, vary, r) ==
    [AllowOrigin |-> allowOrigin, Vary |-> vary, AllowMethods |-> S("GET, POST, OPTIONS"),
     status |-> IF r.Method = "OPTIONS" THEN 204 ELSE StatusOK,
     next |-> r.Method # "OPTIONS"]

\* The handler of CORS(allowedOrigins) on the request r
CORS(allowedOrigins, r) ==
    IF AllowAll(allowedOrigins) THEN Response(Wildcard, <<>>, r)
    ELSE IF r.Origin # <<>> /\ r.Origin \in OriginMap(allowedOrigins)
    THEN Response(r.Origin, S("Origin"), r)
    ELSE Response(<<>>, <<>>, r)

\* The values of ALLOWED_ORIGINS: the strings of at most MaxOrigins bytes
\* made of "*", ",", " " and "a"
MaxOrigins == 3

OriginBytes == {42, 44, 32, 97}

OriginLists ==
    UNION {[1..n -> OriginBytes] : n \in 0..MaxOrigins}

Environments ==
    {<<>>, S("development"), S("staging"), Production, S("prod")}

Environ ==
    [ENV : Environments, ALLOWED_ORIGINS : OriginLists,
     DATABASE_URL : {<<>>, S("postgres://db")}, HIVE_API_KEY : {<<>>, S("key")}]

CORSRequests ==
    [Origin : {<<>>, S("a"), Wildcard}, Method : {"GET", "OPTIONS"}]

ConfigInit ==
    /\ call \in {[op |-> "Load", env |-> env] : env \in Environ}
    /\ ret = None
    /\ prev = None
    /\ NoLimiter
    /\ NoRepository
    /\ NoChain

ConfigStep(r) ==
    /\ ret' = r
    /\ UNCHANGED <<call, prev, limiterVars, repoVars, chainVars>>

\* cfg, _ := config.Load()
LoadConfig ==
    /\ call.op = "Load"
    /\ ret = None
    /\ ConfigStep([op |-> "Load", cfg |-> Load(call.env)])

\* cfg.Validate()
ValidateConfig ==
    /\ ret.op = "Load"
    /\ ConfigStep([op |-> "Validate", cfg |-> ret.cfg, errors |-> Validate(ret.cfg)])

\* A server whose configuration is valid answers a request through
\* CORS(cfg.AllowedOrigins).
ServeCORS ==
    /\ ret.op = "Validate"
    /\ ret.errors = {}
    /\ \E r \in CORSRequests :
          ConfigStep([op |-> "CORS", cfg |-> ret.cfg, request |-> r,
                      response |-> CORS(ret.cfg.AllowedOrigins, r)])

ConfigNext ==
    \/ LoadConfig
    \/ ValidateConfig
    \/ ServeCORS

ConfigSpec ==
    ConfigInit /\ [][ConfigNext]_vars

---------------------------------------------------------------------------
(* Properties *)

AnalyzeOps == {"AnalyzeImage", "AnalyzeAudio", "AnalyzeVideo"}

\* C5: the four format sniffers are total: on every byte sequence they return
\* a value, every read they make lies inside the buffer, and a buffer of 0, 1,
\* 2 or 3 bytes is unknown to each of them.
C5_SniffersTotal ==
    ret.op = "Sniff" =>
        /\ ret.v # Panic
        /\ AllInRange(ret.acc, BLen(call.data))
        /\ BLen(call.data) < 4 => ret.v = "unknown"

\* Three bytes that start like a JPEG file have been sniffed.
C5_Witness ==
    /\ ret.op = "Sniff"
    /\ call.sniffer = "ContentTypeFromMagicBytes"
    /\ call.data = Blob(<<255, 216, 255>>, 0)
    /\ ret.v = "unknown"

\* A whole file was recognised by reads that reach the last byte looked at.
C5_Recognised ==
    /\ ret.op = "Sniff"
    /\ call.sniffer = "detectImageFormat"
    /\ call.data = Blob(SubSeq(WebPFile, 1, 12), 0)
    /\ ret.v = "webp"

\* C6: the image, audio and video analyses of every buffer (empty, cut at any
\* point, declaring any chunk, tag or atom size) make no access outside the
\* buffer and return an AIScore in [0,1].  A division by zero would stop the
\* evaluation of the result, so a result is also free of it.
C6_AnalyzeSafe ==
    ret.op \in AnalyzeOps =>
        /\ ~ret.panic
        /\ ret.AIScore \in 0..Unit

\* A PNG whose IDAT chunk declares 256 bytes and holds 2 was analysed.
C6_Witness ==
    /\ ret.op = "AnalyzeImage"
    /\ call.data = Blob(PNGFile, 0)
    /\ ret.Format = "png"
    /\ ret.Metadata.Software = "AI Generator"

\* A WAV whose LIST chunk declares 2^32-1 bytes was analysed.
C6_Oversized ==
    ret.op = "AnalyzeAudio" /\ call.data = Blob(WAVOversized, 0) /\ ret.Format = "wav"

\* An MP4 cut inside its moov atom was analysed.
C6_Truncated ==
    ret.op = "AnalyzeVideo" /\ call.data = Blob(MP4Truncated, 0) /\ ret.Format = "mp4"

\* An empty buffer was analysed.
C6_Empty ==
    ret.op \in AnalyzeOps /\ call.data = EmptyBlob

\* The offsets of a walk advance: each iteration starts after the one before
\* it, the loop stops after the last one, and no iteration leaves the offset
\* where it was.
Advances(offs, end, stuck) ==
    /\ ~stuck
    /\ \A k \in 1..Len(offs) :
           offs[k] < (IF k < Len(offs) THEN offs[k + 1] ELSE end)

\* The offset after the atom visited at offs[k]
After(w, k) ==
    IF k < Len(w.offs) THEN w.offs[k + 1] ELSE w.end

\* C7: every container walk terminates: in the MP4 atom walk, the walk inside
\* a moov atom, the PNG chunk walk and the FLAC block walk each iteration
\* moves the offset forward; no MP4 atom that declares fewer than 8 bytes is
\* visited (the walk ends there); and a top-level MP4 atom that declares more
\* than the bytes left ends at the end of the buffer.
C7_WalksTerminate ==
    ret.op \in AnalyzeOps =>
        /\ Advances(ret.Walk.offs, ret.Walk.end, ret.Walk.stuck)
        /\ ret.Walk.pad > 0 => ret.Walk.stride > 0
        /\ \A j \in 1..Len(ret.Walk.inner) :
               /\ Advances(ret.Walk.inner[j].offs, ret.Walk.inner[j].end,
                           ret.Walk.inner[j].stuck)
               /\ \A k \in 1..Len(ret.Walk.inner[j].offs) :
                      BE32(BSlice(call.data, ret.Walk.inner[j].at,
                                  ret.Walk.inner[j].at + ret.Walk.inner[j].len),
                           ret.Walk.inner[j].offs[k]) >= 8
        /\ ret.op = "AnalyzeVideo" /\ ret.Format \in {"mp4", "mov"} =>
               /\ \A k \in 1..Len(ret.Walk.offs) :
                      /\ BE32(call.data, ret.Walk.offs[k]) >= 8
                      /\ After(ret.Walk, k) =
                            Min(ret.Walk.offs[k] + BE32(call.data, ret.Walk.offs[k]),
                                BLen(call.data))
               /\ ret.Walk.end < BLen(call.data) - 8 =>
                      ret.Walk.broke /\ BE32(call.data, ret.Walk.end) < 8

\* The walk of an MP4 file went through a moov atom holding three atoms and
\* stopped at an atom that declares 3 bytes.
C7_Witness ==
    /\ ret.op = "AnalyzeVideo"
    /\ call.data = Blob(MP4File, 0)
    /\ Len(ret.Walk.offs) = 3
    /\ Len(ret.Walk.inner) = 1
    /\ Len(ret.Walk.inner[1].offs) = 3
    /\ ret.Walk.broke
    /\ BE32(call.data, ret.Walk.end) = 3

\* The walk of an MP4 file whose last atom declares 2^32-1 bytes stopped at
\* the end of the buffer.
C7_Clamped ==
    /\ ret.op = "AnalyzeVideo"
    /\ call.data = Blob(MP4Oversized, 0)
    /\ Len(ret.Walk.offs) = 2
    /\ ret.Walk.end = BLen(call.data)

\* The PNG and the FLAC walk visited three chunks or blocks.
C7_PNGWalked ==
    ret.op = "AnalyzeImage" /\ call.data = Blob(PNGFile, 0) /\ Len(ret.Walk.offs) = 3

C7_FLACWalked ==
    ret.op = "AnalyzeAudio" /\ call.data = Blob(FLACFile, 0) /\ Len(ret.Walk.offs) = 3

\* C10: after the analysis of any input of any modality every value of the
\* signal set lies in [0,1].
C10_SignalsInRange ==
    ret.op \in AnalyzeOps \cup {"AnalyzeText"} =>
        \A k \in 1..Len(ret.Signals) : ret.Signals[k] \in 0..Unit

\* The metadata signal of a JPEG with camera make and GPS (0.5 - 0.2 - 0.2 -
\* 0.2 before the clamp) is 0.
C10_Witness ==
    /\ ret.op = "AnalyzeImage"
    /\ call.data = Blob(JPEGFile, 0)
    /\ ret.Metadata.HasGPS
    /\ ret.Signals[1] = 0

\* A text of more than 100 bytes was analysed into its eight signals.
C10_Text ==
    ret.op = "AnalyzeText" /\ Len(call.text) > 100 /\ Len(ret.Signals) = 8

\* The categories a detector exists for
Supported ==
    {ContentTypeText, ContentTypeImage, ContentTypeAudio, ContentTypeVideo}

\* The detector of category gets nothing to analyse from call c: the text
\* detector when text and bytes are empty and the URL is empty, cannot be
\* fetched or has an empty body; a media detector when the bytes are empty
\* and the URL is empty or cannot be fetched.
NoPayload(c, category) ==
    /\ BLen(c.input.Data) = 0
    /\ \/ c.input.URL = <<>>
       \/ c.env.fetch.err
       \/ category = ContentTypeText /\ BLen(c.env.fetch.value) = 0
    /\ category = ContentTypeText => c.input.Text = <<>>

\* C1 as stated: Detect fails exactly when the category is unknown or
\* unsupported or the input has no text, no bytes and no URL.
C1_AsStated ==
    ret.op = "Detect" =>
        (ret.result.err <=>
            \/ ret.Category \notin Supported
            \/ call.input.Text = <<>> /\ BLen(call.input.Data) = 0 /\ call.input.URL = <<>>)

\* C1: Detect fails exactly when the category the call is routed by is
\* unknown or unsupported, or the detector of that category gets no payload
\* (for a media detector: no bytes and no URL or a URL that cannot be
\* fetched, whatever the text; for the text detector: no text, no bytes and
\* no URL, a URL that cannot be fetched or one with an empty body).  Every
\* other input, malformed and cut media bytes included, gets a result, and
\* no access outside its bytes is made on the way.
C1_DetectFailures ==
    ret.op = "Detect" =>
        /\ ~ret.result.panic
        /\ ret.result.err <=>
              (ret.Category \notin Supported \/ NoPayload(call, ret.Category))

\* A call that carries only a URL naming an audio file, which cannot be
\* fetched, has failed.
C1_Witness ==
    /\ ret.op = "Detect"
    /\ call.input.Text = <<>>
    /\ BLen(call.input.Data) = 0
    /\ call.input.URL # <<>>
    /\ call.env.fetch.err
    /\ ret.Category = ContentTypeAudio
    /\ ret.result.err

\* A call with bytes no sniffer knows, routed by its hint, has a result.
C1_Malformed ==
    /\ ret.op = "Detect"
    /\ call.input.Data = Blob(<<1, 2, 3, 4, 5>>, 0)
    /\ ret.Category = ContentTypeVideo
    /\ ~ret.result.err

\* The key of an external detector in the configuration of call c
KeyOf(c, name) ==
    IF name = "hive" THEN c.config.HiveAPIKey
    ELSE IF name = "gptzero" THEN c.config.GPTZeroAPIKey
    ELSE c.config.OpenAIAPIKey

\* The external detector name is asked by the detector of the category of
\* the call: with its key set; GPTZero and OpenAI for text only; Hive for a
\* video only when the input has a URL.
Asked(name) ==
    /\ KeyOf(call, name) # ""
    /\ name # "hive" => ret.Category = ContentTypeText
    /\ ret.Category = ContentTypeVideo => call.input.URL # <<>>

\* The external detector name answered without error.
Succeeded(name) ==
    ~call.env[name].err

\* The opinion of a listed detector: the score of the internal analysis,
\* or what the external detector answered.
Opinion(name) ==
    IF name = "humanmark" THEN ret.result.Internal ELSE call.env[name].value

WeightsOf(category) ==
    IF category = ContentTypeText THEN TextDetectorWeights
    ELSE IF category = ContentTypeImage THEN ImageDetectorWeights
    ELSE IF category = ContentTypeAudio THEN AudioDetectorWeights
    ELSE VideoDetectorWeights

\* The weighted mean of the opinions of the detectors listed
MeanOpinion(listed, weights) ==
    Div(SumSeq([i \in 1..Len(listed) |-> Mul(Opinion(listed[i]), weights[listed[i]])]),
        SumSeq([i \in 1..Len(listed) |-> weights[listed[i]]]))

\* C2: no failure of an external detector makes a call fail: a call whose
\* detector has a payload returns a result for every combination of keys
\* and of external successes and failures; its Detectors list is "humanmark"
\* followed by the external detectors asked that answered, in the order
\* hive, gptzero, openai; and its AIScore is the weighted mean of the
\* opinions of the detectors listed and of no other.
C2_ExternalFailuresTolerated ==
    ret.op = "Detect" /\ ret.Category \in Supported /\ ~NoPayload(call, ret.Category) =>
        /\ ~ret.result.err
        /\ ret.result.Called = SelectSeq(<<"hive", "gptzero", "openai">>, Asked)
        /\ ret.result.Detectors =
              <<"humanmark">> \o SelectSeq(ret.result.Called, Succeeded)
        /\ ret.result.AIScore =
              MeanOpinion(ret.result.Detectors, WeightsOf(ret.Category))

\* A text was analysed with the three keys set: Hive failed, GPTZero and
\* OpenAI answered.
C2_Witness ==
    /\ ret.op = "Detect"
    /\ ret.Category = ContentTypeText
    /\ ret.result.Called = <<"hive", "gptzero", "openai">>
    /\ call.env.hive.err
    /\ ret.result.Detectors = <<"humanmark", "gptzero", "openai">>
    /\ call.env.gptzero.value # call.env.openai.value

\* A video given by its bytes alone was analysed with the Hive key set:
\* Hive was not asked.
C2_VideoBytes ==
    /\ ret.op = "Detect"
    /\ ret.Category = ContentTypeVideo
    /\ call.config.HiveAPIKey # ""
    /\ call.input.URL = <<>>
    /\ ret.result.Detectors = <<"humanmark">>

\* C3: every result of Detect has Human = (AIScore < 0.5) and Confidence =
\* |AIScore - 0.5| * 2, with AIScore and Confidence in [0,1], for every
\* combination of opinions in [0,1]; an AIScore of exactly 0.5 gives Human =
\* false and Confidence = 0.
C3_Verdict ==
    ret.op = "Detect" /\ ~ret.result.err =>
        /\ ret.result.AIScore \in 0..Unit
        /\ ret.result.Confidence \in 0..Unit
        /\ ret.result.Human <=> ret.result.AIScore * 2 < Unit
        /\ ret.result.Confidence =
              (IF ret.result.AIScore * 2 >= Unit THEN ret.result.AIScore * 2 - Unit
               ELSE Unit - ret.result.AIScore * 2)
        /\ ret.result.AIScore * 2 = Unit =>
              ~ret.result.Human /\ ret.result.Confidence = 0

\* A result whose AIScore is exactly 0.5: the mean of the internal score
\* and of the opinion of Hive
C3_Witness ==
    /\ ret.op = "Detect"
    /\ ~ret.result.err
    /\ ret.result.Detectors = <<"humanmark", "hive">>
    /\ ret.result.AIScore * 2 = Unit
    /\ ~ret.result.Human
    /\ ret.result.Confidence = 0

\* Results on both sides of 0.5
C3_Human ==
    ret.op = "Detect" /\ ~ret.result.err /\ ret.result.Human /\ ret.result.Confidence > 0

C3_NotHuman ==
    ret.op = "Detect" /\ ~ret.result.err /\ ~ret.result.Human /\ ret.result.Confidence > 0

\* C4 as stated: two calls on the same input with the same configuration
\* return the same AIScore, the same metadata (the encoder name included)
\* and the same ContentHash.
C4_Deterministic ==
    prev # None =>
        /\ ret.op = "AnalyzeText" => ret.AIScore = prev.AIScore
        /\ ret.op \in AnalyzeOps =>
              ret.AIScore = prev.AIScore /\ ret.Metadata = prev.Metadata
        /\ ret.op = "Detect" =>
              /\ ret.result.AIScore = prev.result.AIScore
              /\ ret.result.Encoder = prev.result.Encoder
              /\ ret.ContentHash = prev.ContentHash

\* The category of an input without hint when the sources are applied in
\* the order text, filename extension, URL extension, magic bytes, and a
\* source that yields no known category leaves the decision to the next.
FirstKnown(in) ==
    IF in.Text # <<>> THEN ContentTypeText
    ELSE IF in.Filename # <<>> /\ ContentTypeFromFilename(in.Filename) # ContentTypeUnknown
    THEN ContentTypeFromFilename(in.Filename)
    ELSE IF in.URL # <<>> /\ ContentTypeFromURL(in.URL) # ContentTypeUnknown
    THEN ContentTypeFromURL(in.URL)
    ELSE IF BLen(in.Data) > 0 THEN ContentTypeFromMagicBytes(in.Data)
    ELSE ContentTypeUnknown

\* C8 as stated: without a hint the category is that of the first source, in
\* the order text, filename extension, URL extension (query string ignored),
\* magic bytes, that yields one, and unknown only when no source present in
\* the input yields a known category.
C8_FirstKnownSource ==
    ret.op = "Detect" /\ call.input.ContentType \in {"", ContentTypeUnknown} =>
        ret.Category = FirstKnown(call.input)

\* C9 as stated: the ContentHash of a result is the digest of the payload
\* the analysis used: of the text when text was analysed, of the bytes when
\* bytes were analysed, of the URL string when the content came from the URL.
C9_HashOfPayloadUsed ==
    ret.op = "Detect" /\ ~ret.result.err =>
        ret.ContentHash =
            (IF ret.result.Used = "text" THEN Sha256(Blob(call.input.Text, 0))
             ELSE IF ret.result.Used = "data" THEN Sha256(call.input.Data)
             ELSE Sha256(Blob(call.input.URL, 0)))

---------------------------------------------------------------------------

SeqMin(s) == FirstOf({s[k] : k \in 1..Len(s)})

SeqMax(s) == 0 - FirstOf({0 - s[k] : k \in 1..Len(s)})

WeightedSum(signals, weights) ==
    SumSeq([k \in 1..Len(signals) |-> signals[k] * weights[k]])

\* score is sum / total, to the precision of the fixed point
IsQuotient(score, sum, total) ==
    /\ score * total <= sum
    /\ sum < (score + 1) * total

Scored == ret.op = "calculateWeightedScore"

\* C11: for a signal set with values in [0, 1], calculateWeightedScore of
\* every modality returns the sum of signal * weight divided by the sum of
\* the weights, a value of [0, 1] between the smallest and the largest
\* signal; signals that all equal c score c.
C11_WeightedMean ==
    Scored =>
        /\ ret.score \in 0..Unit
        /\ IsQuotient(ret.score, WeightedSum(call.signals, call.analyzer.weights),
                      SumSeq(call.analyzer.weights))
        /\ SeqMin(call.signals) <= ret.score
        /\ ret.score <= SeqMax(call.signals)
        /\ (\A k \in 1..Len(call.signals) : call.signals[k] = call.signals[1])
               => ret.score = call.signals[1]

\* a rising signal set of the image analyzer has been scored: its mean is
\* strictly between its smallest and its largest signal
C11_Witness ==
    /\ Scored
    /\ call.analyzer.modality = "image"
    /\ call.signals = [k \in 1..6 |-> (k * Unit) \div Tenths]
    /\ SeqMin(call.signals) < ret.score
    /\ ret.score < SeqMax(call.signals)

\* neutral signals score the neutral value
C11_Neutral ==
    /\ Scored
    /\ call.analyzer.modality = "text"
    /\ \A k \in 1..Len(call.signals) : call.signals[k] = Unit \div 2
    /\ ret.score = Unit \div 2

---------------------------------------------------------------------------

\* C12: the default weight table of every modality (text, image, audio,
\* video) holds strictly positive weights only, and they sum to a value of
\* [0.99, 1.01].
C12_DefaultWeights ==
    call.op = "calculateWeightedScore" =>
        /\ \A k \in 1..Len(call.analyzer.weights) : call.analyzer.weights[k] > 0
        /\ Milli(990) <= SumSeq(call.analyzer.weights)
        /\ SumSeq(call.analyzer.weights) <= Milli(1010)

\* the text analyzer, built with its eight default weights, has scored a
\* signal set
C12_Witness ==
    /\ Scored
    /\ call.analyzer = NewAnalyzer("text")
    /\ Len(call.analyzer.weights) = 8
    /\ SumSeq(call.analyzer.weights) = Unit

---------------------------------------------------------------------------

Neutral == Unit \div 2

AllNeutral(signals) ==
    \A k \in 1..Len(signals) : signals[k] = Neutral

\* an empty or very short text, of fewer than 3 sentences
ShortText(t) ==
    /\ Len(tokenize(t)) < 3
    /\ Len(splitSentences(t)) < 3

\* C13: on insufficient data (an empty or very short text of fewer than 3
\* sentences, a binary payload of less than a KB) every signal of the
\* modality is exactly the neutral value 0.5.
C13_NeutralOnLowData ==
    /\ (ret.op = "AnalyzeText" /\ ShortText(call.text)) => AllNeutral(ret.Signals)
    /\ (ret.op \in AnalyzeOps /\ BLen(call.data) < 2^10) => AllNeutral(ret.Signals)

\* The text half of C13 alone, and on the empty text alone
C13_EmptyText ==
    (ret.op = "AnalyzeText" /\ call.text = <<>>) => AllNeutral(ret.Signals)

\* C14: Analyze of a text of fewer than 3 words, whatever its punctuation,
\* returns an AIScore within [0.3, 0.7].
C14_ShortTextScore ==
    (ret.op = "AnalyzeText" /\ Len(tokenize(call.text)) < 3) =>
        /\ Milli(300) <= ret.AIScore
        /\ ret.AIScore <= Milli(700)

---------------------------------------------------------------------------

SniffedVideo ==
    /\ ret.op = "Sniff"
    /\ call.sniffer = "detectVideoFormat"

\* bytes 4-7 are "ftyp" and bytes 8-11 are one of brands
Branded(d, brands) ==
    /\ BLen(d) >= 12
    /\ BytesAt(d, 4, S("ftyp"))
    /\ \E b \in brands : BytesAt(d, 8, b)

\* C19: detectVideoFormat returns "mov" for an input whose bytes 4-7 are
\* "ftyp" and whose brand (bytes 8-11) is "qt  ", and "mp4" for the brands
\* isom, iso2, mp41, mp42, avc1 and "M4V ".
C19_BrandLookup ==
    SniffedVideo =>
        /\ Branded(call.data, {S("qt  ")}) => ret.v = "mov"
        /\ Branded(call.data, {S("isom"), S("iso2"), S("mp41"), S("mp42"), S("avc1"),
                               S("M4V ")}) => ret.v = "mp4"

\* C20: detectVideoFormat returns "flv" for every input of at least 4 bytes
\* that begins with 'F', 'L', 'V', such as a 9-byte FLV header.
C20_FLVPrefix ==
    (SniffedVideo /\ BLen(call.data) >= 4 /\ BytesAt(call.data, 0, S("FLV"))) =>
        ret.v = "flv"

---------------------------------------------------------------------------

\* The requests of a client that the handler has decided in window w
Decided(clientIP, w, paths) ==
    {i \in 1..Len(reqs) :
        /\ reqs[i].ip = clientIP
        /\ reqs[i].window = w
        /\ reqs[i].path \in paths
        /\ reqs[i].pc # "allow"}

NotRefused(set) ==
    {i \in set : reqs[i].status # StatusTooManyRequests}

Forwarded(set) ==
    {i \in set : reqs[i].status = StatusOK}

Windows == 1..(MaxTime + Window)

C15_NewWindow ==
    /\ limiter # None
    /\ limiter.limit = 1
    /\ \E i, j \in 1..Len(reqs) :
          /\ reqs[i].ip = reqs[j].ip
          /\ reqs[i].path = "/" /\ reqs[j].path = "/"
          /\ reqs[i].status = StatusOK /\ reqs[j].status = StatusOK
          /\ reqs[i].window < reqs[j].window

\* With the limit 0, a request was forwarded.
C15_LimitZero ==
    /\ limiter # None
    /\ limiter.limit = 0
    /\ \E i \in 1..Len(reqs) : reqs[i].path = "/" /\ reqs[i].status = StatusOK

---------------------------------------------------------------------------

\* The parts in the order the claim gives: before m1, ..., before mn, the
\* handler, after mn, ..., after m1
InOrder(ms) ==
    [k \in 1..Len(ms) |-> <<ms[k], "before">>] \o <<(<<"handler">>)>> \o
    [k \in 1..Len(ms) |-> <<ms[Len(ms) + 1 - k], "after">>]

Served ==
    /\ call.op = "Chain"
    /\ frames = <<>>
    /\ trace # <<>>

\* C18: Chain(m1, ..., mn) makes m1 the outermost: a request runs the parts
\* before the handler in the order m1, ..., mn, then the final handler
\* exactly once, then the parts after it in the order mn, ..., m1.
C18_ChainOrder ==
    call.op = "Chain" =>
        /\ Len(trace) <= Len(InOrder(call.middlewares))
        /\ trace = SubSeq(InOrder(call.middlewares), 1, Len(trace))
        /\ Served => trace = InOrder(call.middlewares)

\* Chain(mw1, mw2) has served a request
C18_Witness ==
    /\ Served
    /\ call.middlewares = <<"mw1", "mw2">>
    /\ trace = << <<"mw1", "before">>, <<"mw2", "before">>, <<"handler">>,
                  <<"mw2", "after">>, <<"mw1", "after">> >>

\* Chain() of no middleware has served a request: the final handler alone
C18_Empty ==
    /\ Served
    /\ call.middlewares = <<>>
    /\ trace = << <<"handler">> >>

---------------------------------------------------------------------------

\* The call that created the job of a later call k, if any
CreationOf(k) ==
    {c \in 1..(k - 1) : rets[c].op = "CreateJob" /\ rets[c].err = "" /\ rets[c].id = rets[k].id}

\* C16: GetJob of the in-memory repository returns a copy: whatever the
\* callers write to the jobs CreateJob and GetJob returned to them (fields,
\* elements of Detectors), a later GetJob of the same ID returns the job as
\* it was created.
C16_GetJobReturnsCopy ==
    repo # None =>
        (repo.kind = "memory" =>
            \A k \in 1..Len(rets) :
                (rets[k].op = "GetJob" /\ rets[k].err = "") =>
                    \A c \in CreationOf(k) : rets[k].seen = rets[c].seen)

\* The half of C16 about the fields: a write to a field of a returned job
\* changes no later GetJob.
C16_FieldsCopied ==
    repo # None =>
        (repo.kind = "memory" =>
            \A k \in 1..Len(rets) :
                (rets[k].op = "GetJob" /\ rets[k].err = "") =>
                    \A c \in CreationOf(k) :
                        [rets[k].seen EXCEPT !.Detectors = <<>>] =
                            [rets[c].seen EXCEPT !.Detectors = <<>>])

\* C17: for the in-memory and the PostgreSQL repository, once CreateJob has
\* returned a job with ID i and no error, every later GetJob(i) returns that
\* job, with the same ID, ContentType, Human and Confidence, whatever calls
\* come in between.
C17_GetJobAfterCreateJob ==
    repo # None =>
        \A k \in 1..Len(rets) :
            rets[k].op = "GetJob" =>
                \A c \in CreationOf(k) :
                    /\ rets[k].err = ""
                    /\ rets[k].seen.ID = rets[c].seen.ID
                    /\ rets[k].seen.ContentType = rets[c].seen.ContentType
                    /\ rets[k].seen.Human = rets[c].seen.Human
                    /\ rets[k].seen.Confidence = rets[c].seen.Confidence

\* C17 for the in-memory repository alone
C17_Memory ==
    repo # None => (repo.kind = "memory" => C17_GetJobAfterCreateJob)

\* A job was created, its caller wrote to its Confidence, and GetJob
\* returned the job as created.
C17_MemoryWitness ==
    /\ repo # None
    /\ repo.kind = "memory"
    /\ Len(rets) = 2
    /\ rets[1].op = "CreateJob"
    /\ rets[1].job.Confidence = Milli(500)
    /\ rets[2].op = "GetJob"
    /\ rets[2].id = rets[1].id
    /\ rets[2].seen.Confidence = Milli(900)

---------------------------------------------------------------------------

SniffedAudio ==
    /\ ret.op = "Sniff"
    /\ call.sniffer = "detectAudioFormat"

\* C21: detectAudioFormat returns "aac" for an input of at least 12 bytes
\* that begins with an ADTS sync word: the byte 0xFF, then a byte whose four
\* high bits are set.
C21_ADTSIsAAC ==
    (SniffedAudio /\ BLen(call.data) >= 12 /\ At(call.data, 0) = 255
        /\ At(call.data, 1) >= 240) => ret.v = "aac"

M4AFamily == {S("M4A "), S("mp42"), S("isom")}

\* C22: detectAudioFormat reports "m4a" for an ftyp container only when its
\* brand is of the M4A family.
C22_M4ABrands ==
    (SniffedAudio /\ ret.v = "m4a") => Branded(call.data, M4AFamily)

---------------------------------------------------------------------------

\* C23: the MP4 extractor recurses into moov and, within it, into trak, udta
\* and meta: the token of a generator in a udta atom inside moov sets
\* EncoderName and IsAIMarked, as the same token in a meta atom inside moov
\* does.
C23_NestedUdta ==
    (ret.op = "AnalyzeVideo" /\ call.data \in {Blob(MP4MoovUdta, 0), Blob(MP4MoovMeta, 0)}) =>
        /\ ret.Metadata.IsAIMarked
        /\ ret.Metadata.EncoderName = "OpenAI Sora"

\* The token in a meta atom inside moov is found.
C23_NestedMeta ==
    /\ ret.op = "AnalyzeVideo"
    /\ call.data = Blob(MP4MoovMeta, 0)
    /\ ret.Metadata.IsAIMarked
    /\ ret.Metadata.EncoderName = "OpenAI Sora"

---------------------------------------------------------------------------

\* The low 7 bits of data[i]
Low7(d, i) ==
    At(d, i) % 128

\* C24: analyzeMP3 decodes the size of the ID3v2 tag as a syncsafe integer:
\* whatever the four size bytes, the size is
\* (b6 & 0x7F) * 2^21 + (b7 & 0x7F) * 2^14 + (b8 & 0x7F) * 2^7 + (b9 & 0x7F),
\* at most 2^28 - 1.
C24_Syncsafe ==
    ret.op = "ID3Size" =>
        /\ ret.size = Low7(call.data, 6) * 2^21 + Low7(call.data, 7) * 2^14
                         + Low7(call.data, 8) * 2^7 + Low7(call.data, 9)
        /\ ret.size <= 2^28 - 1

\* Four size bytes of at most 127 are decoded as the syncsafe integer.
C24_SevenBits ==
    /\ ret.op = "ID3Size"
    /\ call.data = ID3Header(1, 127, 0, 1)
    /\ ret.size = 2^21 + 127 * 2^14 + 1

---------------------------------------------------------------------------

\* The first frame-sync word at or after offset from, -1 if there is none
SyncFrom(d, from) ==
    FirstOf({i \in from..(Min(BLen(d) - 4, Len(d.head)) - 1) :
                 d.head[i + 1] = 255 /\ At(d, i + 1) >= 224})

\* The audio parameters are those of the frame header at offset i
DecodedAt(meta, d, i) ==
    /\ meta.SampleRate = (IF SrIdx(d, i) < 3 THEN MP3SampleRates[SrIdx(d, i) + 1] ELSE 0)
    /\ meta.Channels = (IF ChannelMode(d, i) = 3 THEN 1 ELSE 2)
    /\ meta.Bitrate = (IF BitrateIdx(d, i) < 15 THEN MP3Bitrates[BitrateIdx(d, i) + 1] ELSE 0)

FrameAfterTag(meta, d, i) ==
    i # -1 => DecodedAt(meta, d, i)

\* C25: when an MP3 begins with an ID3v2 tag, the sample rate, the channel
\* count and the bitrate are decoded from the first frame-sync word after
\* the tag, never from bytes of the tag.
C25_FrameAfterTag ==
    (ret.op = "AnalyzeAudio" /\ ret.Format = "mp3" /\ ID3Tag(call.data).tagged) =>
        FrameAfterTag(ret.Metadata, call.data, SyncFrom(call.data, 10 + ID3Size(call.data)))

\* A tag without the byte 0xFF: the parameters are those of the first frame.
C25_PlainTag ==
    /\ ret.op = "AnalyzeAudio"
    /\ call.data = Blob(MP3File, 600)
    /\ ret.Metadata.SampleRate = 44100
    /\ ret.Metadata.Bitrate = 128

---------------------------------------------------------------------------

\* Metadata of a screenshot: no EXIF, no camera make, no GPS, no generator
ScreenshotMetadata(meta) ==
    /\ ~meta.HasEXIF
    /\ meta.IsScreenshot
    /\ meta.CameraMake = ""
    /\ ~meta.HasGPS
    /\ meta.Software # "AI Generator"

\* C26: the metadata signal of the image analyzer does not score a
\* screenshot as high-AI: for metadata without EXIF, with IsScreenshot, and
\* without camera make, GPS and generator software, analyzeMetadata
\* returns at most 0.6.
C26_ScreenshotScore ==
    (ret.op = "AnalyzeImage" /\ ScreenshotMetadata(ret.Metadata)) =>
        ret.Signals[1] <= Milli(600)

---------------------------------------------------------------------------

StatsText == S("Hello world. This is a test. One two three.")

\* The positions where a word (a run of letters and apostrophes) starts
WordStarts(t) ==
    {i \in 1..Len(t) : t[i] \in WordBytes /\ (i = 1 \/ t[i - 1] \notin WordBytes)}

---------------------------------------------------------------------------

\* The input starts with the PNG signature followed by an IHDR chunk.
StartsWithIHDR(d) ==
    /\ Len(d.head) >= 33
    /\ SubSeq(d.head, 1, 16) = PNGMagic \o <<13, 10, 26, 10>> \o <<0, 0, 0, 13>> \o S("IHDR")

\* The big-endian number of the four bytes of h from index i (1-based)
BigEndian(h, i) ==
    h[i] * 16777216 + h[i + 1] * 65536 + h[i + 2] * 256 + h[i + 3]

\* C28: for every input that starts with the PNG signature followed by an
\* IHDR chunk, the analysis reports the Width and the Height encoded
\* big-endian in bytes 16-19 and 20-23 and the BitDepth of byte 24; the
\* 1024 x 768 image of depth 8 is reported as 1024, 768 and 8.
C28_PNGDimensions ==
    (ret.op = "AnalyzeImage" /\ StartsWithIHDR(call.data)) =>
        /\ ret.Format = "png"
        /\ ret.Stats.Width = BigEndian(call.data.head, 17)
        /\ ret.Stats.Height = BigEndian(call.data.head, 21)
        /\ ret.Stats.BitDepth = call.data.head[25]
        /\ call.data.head = PNG1024 =>
              /\ ret.Stats.Width = 1024
              /\ ret.Stats.Height = 768
              /\ ret.Stats.BitDepth = 8

\* The 1024 x 768 image, followed by padding, has been analysed.
C28_Witness ==
    /\ ret.op = "AnalyzeImage"
    /\ call.data.head = PNG1024
    /\ call.data.pad > 0
    /\ ret.Stats.Width = 1024
    /\ ret.Stats.Height = 768

---------------------------------------------------------------------------

\* The modality whose analyzer owns the format sniffer
ModalityOf(sniffer) ==
    IF sniffer = "detectImageFormat" THEN ContentTypeImage
    ELSE IF sniffer = "detectAudioFormat" THEN ContentTypeAudio
    ELSE ContentTypeVideo

\* C29: every input that the format sniffer of a modality recognises as one
\* of its container formats is classified by ContentTypeFromMagicBytes into
\* that modality.
C29_SniffersAgree ==
    (ret.op = "Sniff" /\ call.sniffer # "ContentTypeFromMagicBytes" /\ ret.v # "unknown") =>
        ContentTypeFromMagicBytes(call.data) = ModalityOf(call.sniffer)

\* A PNG file is recognised by the image sniffer and classified as an image.
C29_PNGAgrees ==
    /\ ret.op = "Sniff"
    /\ call.sniffer = "detectImageFormat"
    /\ ret.v = "png"
    /\ ContentTypeFromMagicBytes(call.data) = ContentTypeImage

---------------------------------------------------------------------------

\* C30: a configuration that Load produces with ENV=production and that
\* passes Validate never makes the CORS middleware answer with
\* Access-Control-Allow-Origin: *, whatever ALLOWED_ORIGINS holds.
C30_NoWildcardInProduction ==
    (ret.op = "CORS" /\ call.env.ENV = Production) =>
        ret.response.AllowOrigin # Wildcard

\* In production the one listed origin "a" is echoed to a request from it.
C30_ListedOrigin ==
    /\ ret.op = "CORS"
    /\ call.env.ENV = Production
    /\ call.env.ALLOWED_ORIGINS = S("a")
    /\ ret.request.Origin = S("a")
    /\ ret.response.AllowOrigin = S("a")

=============================================================================
